---- MODULE Spec2Model ----
\* Model of the multi-agent financial planning pipeline:
\*   backend/app/agents/state.py         the FinancialState record
\*   backend/app/agents/base_agent.py    _invoke_llm, _clean_llm_response, _update_state
\*   backend/app/agents/<name>_agent.py  the five agents' process methods
\*   backend/app/agents/orchestrator.py  process_financial_planning_sync
\* Python exceptions are modelled as values: an evaluation yields either a
\* normal result or an exception carrying its class and message, and each
\* try/except is modelled by the classes its handlers catch.
EXTENDS Integers, Sequences, FiniteSets, TLC

(***************************************************************************)
(* Bounds                                                                  *)
(***************************************************************************)
\* number of direct agent invocations explored on one record (SpecAny)
MaxInvocations == 2

(***************************************************************************)
(* Python values                                                           *)
(***************************************************************************)
\* None for Optional[str] fields
None == "<None>"

\* JSON values as json.loads produces them, tagged with their Python type
JNull == [t |-> "null"]
JNum(n) == [t |-> "num", v |-> n]
JStr(s) == [t |-> "str", v |-> s]
JList(l) == [t |-> "list", v |-> l]
JDict(d) == [t |-> "dict", v |-> d]
EmptyDict == JDict(<<>>)

\* d.get(k, default) on a dict
Get(d, k, default) == IF k \in DOMAIN d.v THEN d.v[k] ELSE default

(***************************************************************************)
(* Exceptions                                                              *)
(***************************************************************************)
NoExc == [cls |-> "none", msg |-> ""]
Raise(cls, msg) == [cls |-> cls, msg |-> msg]

\* the classes of an exception class, most specific first (Python MRO)
Bases(cls) ==
    CASE cls = "JSONDecodeError" -> {"JSONDecodeError", "ValueError", "Exception"}
      [] cls = "ValidationError" -> {"ValidationError", "ValueError", "Exception"}
      [] cls = "TimeoutError" -> {"TimeoutError", "OSError", "Exception"}
      [] cls = "AttributeError" -> {"AttributeError", "Exception"}
      [] cls = "TypeError" -> {"TypeError", "Exception"}
      [] cls = "ConnectionError" -> {"ConnectionError", "OSError", "Exception"}
      [] cls = "HTTPException" -> {"HTTPException", "Exception"}
      [] cls = "ValueError" -> {"ValueError", "Exception"}
      [] OTHER -> {cls}

\* an "except handler:" clause catches an exception of class cls
Catches(handler, cls) == handler \in Bases(cls)

(***************************************************************************)
(* Strings                                                                 *)
(***************************************************************************)
Char(s, i) == SubSeq(s, i, i)
IsSpace(c) == c \in {" ", "\n", "\t"}
\* c.lower() for one character
LowerChar(c) ==
    CASE c = "A" -> "a" [] c = "B" -> "b" [] c = "C" -> "c" [] c = "D" -> "d" [] c = "E" -> "e"
      [] c = "F" -> "f" [] c = "G" -> "g" [] c = "H" -> "h" [] c = "I" -> "i" [] c = "J" -> "j"
      [] c = "K" -> "k" [] c = "L" -> "l" [] c = "M" -> "m" [] c = "N" -> "n" [] c = "O" -> "o"
      [] c = "P" -> "p" [] c = "Q" -> "q" [] c = "R" -> "r" [] c = "S" -> "s" [] c = "T" -> "t"
      [] c = "U" -> "u" [] c = "V" -> "v" [] c = "W" -> "w" [] c = "X" -> "x" [] c = "Y" -> "y"
      [] c = "Z" -> "z" [] OTHER -> c

\* keyword in s.lower()
InLower(keyword, s) ==
    \E i \in 1..(Len(s) - Len(keyword) + 1) :
        \A k \in 1..Len(keyword) : LowerChar(Char(s, i + k - 1)) = Char(keyword, k)

StartsWithAt(s, i, p) == i + Len(p) - 1 <= Len(s) /\ SubSeq(s, i, i + Len(p) - 1) = p

\* the markdown code fence: three backquote characters, written with quote
\* characters because a TLA+ string cannot hold a backquote
Fence == "'''"

Min(S) == CHOOSE k \in S : \A m \in S : k <= m
Max(S) == CHOOSE k \in S : \A m \in S : m <= k

\* str.strip()
Strip(s) ==
    LET kept == {k \in 1..Len(s) : ~IsSpace(Char(s, k))}
    IN IF kept = {} THEN "" ELSE SubSeq(s, Min(kept), Max(kept))

\* end of the whitespace run that starts at position i (i - 1 when there is none)
SpaceRunEnd(s, i) == Min({k \in i..(Len(s) + 1) : k = Len(s) + 1 \/ ~IsSpace(Char(s, k))}) - 1

\* ^ with re.MULTILINE: start of the string or just after a newline
AtLineStart(s, i) == i = 1 \/ Char(s, i - 1) = "\n"
\* $ with re.MULTILINE, after position j: end of the string or just before a newline
AtLineEnd(s, j) == j = Len(s) \/ Char(s, j + 1) = "\n"

\* last position of the match of  ^FENCE(?:json)?\s*\n  that starts at i, 0 when
\* there is none; the greedy \s* gives back characters up to its last newline
OpenFenceEnd(s, i) ==
    IF ~(AtLineStart(s, i) /\ StartsWithAt(s, i, Fence)) THEN 0
    ELSE LET j == IF StartsWithAt(s, i + 3, "json") THEN i + 7 ELSE i + 3
             e == SpaceRunEnd(s, j)
             nls == {k \in j..e : Char(s, k) = "\n"}
         IN IF nls = {} THEN 0 ELSE Max(nls)

\* last position of the match of  \nFENCE\s*$  that starts at i, 0 when there is
\* none; the greedy \s* gives back characters up to the last line end
CloseFenceEnd(s, i) ==
    IF ~StartsWithAt(s, i, "\n" \o Fence) THEN 0
    ELSE LET e == SpaceRunEnd(s, i + 4)
             ends == {k \in (i + 3)..e : AtLineEnd(s, k)}
         IN IF ends = {} THEN 0 ELSE Max(ends)

\* re.sub(pattern, '', s) from position i on: the matches are removed left to right
RECURSIVE SubOpen(_, _)
SubOpen(s, i) ==
    LET starts == {k \in i..Len(s) : OpenFenceEnd(s, k) > 0}
    IN IF starts = {} THEN SubSeq(s, i, Len(s))
       ELSE SubSeq(s, i, Min(starts) - 1) \o SubOpen(s, OpenFenceEnd(s, Min(starts)) + 1)
RECURSIVE SubClose(_, _)
SubClose(s, i) ==
    LET starts == {k \in i..Len(s) : CloseFenceEnd(s, k) > 0}
    IN IF starts = {} THEN SubSeq(s, i, Len(s))
       ELSE SubSeq(s, i, Min(starts) - 1) \o SubClose(s, CloseFenceEnd(s, Min(starts)) + 1)

\* BaseFinancialAgent._clean_llm_response
CleanLlmResponse(response) == Strip(SubClose(SubOpen(response, 1), 1))

(***************************************************************************)
(* The texts the external capability may answer with, and json.loads       *)
(***************************************************************************)
\* holdings items of a CAS parse, as JSON text
TxtEquityIT == "{\"symbol\": \"INFY\", \"name\": \"Infosys\", \"quantity\": 10, \"current_value\": 600, \"asset_type\": \"equity\", \"sector\": \"IT\"}"
TxtEquityNoSector == "{\"symbol\": \"XYZ\", \"name\": \"Xyz\", \"quantity\": 4, \"current_value\": 400, \"asset_type\": \"equity\"}"
TxtDebt == "{\"symbol\": \"GSEC\", \"name\": \"Gilt\", \"quantity\": 4, \"current_value\": 400, \"asset_type\": \"debt\", \"sector\": \"Govt\"}"
TxtNoValue == "{\"symbol\": \"BAD\", \"name\": \"Bad\"}"

\* the same items as json.loads returns them
JEquityIT == JDict([symbol |-> JStr("INFY"), name |-> JStr("Infosys"), quantity |-> JNum(10),
                    current_value |-> JNum(600), asset_type |-> JStr("equity"), sector |-> JStr("IT")])
JEquityNoSector == JDict([symbol |-> JStr("XYZ"), name |-> JStr("Xyz"), quantity |-> JNum(4),
                          current_value |-> JNum(400), asset_type |-> JStr("equity")])
JDebt == JDict([symbol |-> JStr("GSEC"), name |-> JStr("Gilt"), quantity |-> JNum(4),
                current_value |-> JNum(400), asset_type |-> JStr("debt"), sector |-> JStr("Govt")])
JNoValue == JDict([symbol |-> JStr("BAD"), name |-> JStr("Bad")])

\* answers to the CAS parser
TxtCasMixed == "{\"holdings\": [" \o TxtEquityIT \o ", " \o TxtDebt \o "], \"total_value\": 1000}"
TxtCasWrongTotal == "{\"holdings\": [" \o TxtEquityIT \o ", " \o TxtEquityNoSector \o "], \"total_value\": 5}"
TxtCasDebtOnly == "{\"holdings\": [" \o TxtDebt \o "]}"
TxtCasNoHoldings == "{\"holdings\": [], \"total_value\": 0}"
TxtCasBadItem == "{\"holdings\": [" \o TxtEquityIT \o ", " \o TxtNoValue \o "], \"total_value\": 600}"

\* answers to the portfolio analyzer
TxtAnalysis == "{\"diversification_score\": 7, \"key_insights\": [\"ok\"]}"

\* answers to the market outlook agent
TxtOutlook == "{\"market_sentiment\": \"bullish\", \"sector_outlook\": {\"IT\": \"strong\"}}"
TxtOutlookBadSectors == "{\"market_sentiment\": \"bearish\", \"sector_outlook\": \"weak\"}"

\* answers to the risk profiler
TxtRisk == "{\"risk_tolerance\": \"aggressive\", \"risk_score\": 8, \"investment_horizon\": \"long\"}"
TxtRiskHigh == "{\"risk_tolerance\": \"aggressive\", \"risk_score\": 15}"
TxtRiskNegative == "{\"risk_score\": -3}"
TxtRiskBadScore == "{\"risk_score\": \"high\"}"

\* answers to the financial advisor
TxtAdvice == "{\"asset_rebalancing\": [\"a\"], \"sector_adjustments\": [\"b\"], \"investment_suggestions\": [\"c\"], \"risk_warnings\": [\"d\"], \"action_items\": [\"e\"]}"
TxtAdvicePartial == "{\"asset_rebalancing\": [\"a\"]}"
TxtAdviceBadPriority == "{\"action_items\": [\"e\"], \"priority_score\": \"high\"}"
TxtAdviceBadList == "{\"asset_rebalancing\": \"a\"}"

\* answers that are no JSON object
TxtProse == "Sorry, I cannot help with that."
TxtList == "[]"
TxtBlank == " \n"
TxtEmptyFence == Fence \o "\n" \o Fence \o "\n"
Fenced(text) == Fence \o "json\n" \o text \o "\n" \o Fence

\* json.loads(text): the parsed value, or JSONDecodeError for a text that is
\* no JSON document
JsonLoads(text) ==
    CASE text = TxtCasMixed ->
           [exc |-> NoExc, value |-> JDict([holdings |-> JList(<<JEquityIT, JDebt>>), total_value |-> JNum(1000)])]
      [] text = TxtCasWrongTotal ->
           [exc |-> NoExc, value |-> JDict([holdings |-> JList(<<JEquityIT, JEquityNoSector>>), total_value |-> JNum(5)])]
      [] text = TxtCasDebtOnly ->
           [exc |-> NoExc, value |-> JDict([holdings |-> JList(<<JDebt>>)])]
      [] text = TxtCasNoHoldings ->
           [exc |-> NoExc, value |-> JDict([holdings |-> JList(<<>>), total_value |-> JNum(0)])]
      [] text = TxtCasBadItem ->
           [exc |-> NoExc, value |-> JDict([holdings |-> JList(<<JEquityIT, JNoValue>>), total_value |-> JNum(600)])]
      [] text = TxtAnalysis ->
           [exc |-> NoExc, value |-> JDict([diversification_score |-> JNum(7), key_insights |-> JList(<<JStr("ok")>>)])]
      [] text = TxtOutlook ->
           [exc |-> NoExc, value |-> JDict([market_sentiment |-> JStr("bullish"),
                                            sector_outlook |-> JDict([IT |-> JStr("strong")])])]
      [] text = TxtOutlookBadSectors ->
           [exc |-> NoExc, value |-> JDict([market_sentiment |-> JStr("bearish"), sector_outlook |-> JStr("weak")])]
      [] text = TxtRisk ->
           [exc |-> NoExc, value |-> JDict([risk_tolerance |-> JStr("aggressive"), risk_score |-> JNum(8),
                                            investment_horizon |-> JStr("long")])]
      [] text = TxtRiskHigh ->
           [exc |-> NoExc, value |-> JDict([risk_tolerance |-> JStr("aggressive"), risk_score |-> JNum(15)])]
      [] text = TxtRiskNegative ->
           [exc |-> NoExc, value |-> JDict([risk_score |-> JNum(-3)])]
      [] text = TxtRiskBadScore ->
           [exc |-> NoExc, value |-> JDict([risk_score |-> JStr("high")])]
      [] text = TxtAdvice ->
           [exc |-> NoExc, value |-> JDict([asset_rebalancing |-> JList(<<JStr("a")>>),
                                            sector_adjustments |-> JList(<<JStr("b")>>),
                                            investment_suggestions |-> JList(<<JStr("c")>>),
                                            risk_warnings |-> JList(<<JStr("d")>>),
                                            action_items |-> JList(<<JStr("e")>>)])]
      [] text = TxtAdvicePartial ->
           [exc |-> NoExc, value |-> JDict([asset_rebalancing |-> JList(<<JStr("a")>>)])]
      [] text = TxtAdviceBadPriority ->
           [exc |-> NoExc, value |-> JDict([action_items |-> JList(<<JStr("e")>>), priority_score |-> JStr("high")])]
      [] text = TxtAdviceBadList ->
           [exc |-> NoExc, value |-> JDict([asset_rebalancing |-> JStr("a")])]
      [] text = TxtList ->
           [exc |-> NoExc, value |-> JList(<<>>)]
      [] OTHER ->
           [exc |-> Raise("JSONDecodeError", "Expecting value: line 1 column 1 (char 0)"), value |-> JNull]

\* the texts the capability may answer an agent's request with
Answers(name) ==
    {"", TxtBlank, TxtProse, TxtList, TxtEmptyFence} \cup
    CASE name = "cas_parser" ->
           {TxtCasMixed, TxtCasWrongTotal, TxtCasDebtOnly, TxtCasNoHoldings, TxtCasBadItem, Fenced(TxtCasNoHoldings)}
      [] name = "portfolio_analyzer" -> {TxtAnalysis, Fenced(TxtAnalysis)}
      [] name = "market_outlook" -> {TxtOutlook, TxtOutlookBadSectors, Fenced(TxtOutlook)}
      [] name = "risk_profiler" -> {TxtRisk, TxtRiskHigh, TxtRiskNegative, TxtRiskBadScore, Fenced(TxtRisk)}
      [] OTHER -> {TxtAdvice, TxtAdvicePartial, TxtAdviceBadPriority, TxtAdviceBadList, Fenced(TxtAdvice)}
AllAnswers ==
    Answers("cas_parser") \cup Answers("portfolio_analyzer") \cup Answers("market_outlook")
        \cup Answers("risk_profiler") \cup Answers("financial_advisor")

\* content.strip() and _clean_llm_response(content), tabulated over the answers
StrippedAnswer == [content \in AllAnswers |-> Strip(content)]
CleanedAnswer == [content \in AllAnswers |-> CleanLlmResponse(content)]

(***************************************************************************)
(* BaseFinancialAgent                                                      *)
(***************************************************************************)
AgentNames == <<"cas_parser", "portfolio_analyzer", "market_outlook", "risk_profiler", "financial_advisor">>

\* one call of the external capability: it answers with a text (content),
\* does not answer before the alarm fires (timeout), or fails (error); or
\* timeout_handler could not set its signal handler and the call is never
\* made (no_signal)
LlmOutcome(kind, content) == [kind |-> kind, content |-> content]

\* lines 76-91: the call under timeout_handler(30), the empty check, the cleaning
InvokeChain(llm) ==
    CASE llm.kind = "timeout" ->
           [exc |-> Raise("TimeoutError", "Operation timed out after 30 seconds"), value |-> ""]
      [] llm.kind = "error" ->
           [exc |-> Raise("ConnectionError", "503 service unavailable"), value |-> ""]
      [] llm.kind = "no_signal" ->
           [exc |-> Raise("ValueError", "signal only works in main thread of the main interpreter"),
            value |-> ""]
      [] OTHER ->
           IF llm.content = "" \/ StrippedAnswer[llm.content] = ""
           THEN [exc |-> Raise("Exception", "LLM returned empty response"), value |-> ""]
           ELSE [exc |-> NoExc, value |-> CleanedAnswer[llm.content]]

\* lines 92-94: "except TimeoutError" around the call r
TimeoutCaught(r) ==
    IF Catches("TimeoutError", r.exc.cls)
    THEN [exc |-> Raise("Exception", "LLM call timed out after 30 seconds"), value |-> ""]
    ELSE r

\* lines 61-94: the API key check, then the call
InvokeChecked(api_key, llm) ==
    IF ~api_key
    THEN [exc |-> Raise("Exception", "Google API key not configured"), value |-> ""]
    ELSE TimeoutCaught(InvokeChain(llm))

\* BaseFinancialAgent._get_fallback_response
GetFallbackResponse(name) ==
    CASE name = "cas_parser" ->
           "{\"holdings\": [], \"total_value\": 0, \"parsing_errors\": [\"LLM unavailable - using mock data\"]}"
      [] name = "portfolio_analyzer" ->
           "{\"diversification_score\": 5.0, \"concentration_risks\": [\"LLM unavailable\"], \"key_insights\": [\"Please configure Google API key\"]}"
      [] name = "market_outlook" ->
           "{\"market_sentiment\": \"neutral\", \"sector_outlook\": {}, \"key_trends\": [\"LLM unavailable\"]}"
      [] name = "risk_profiler" ->
           "{\"risk_tolerance\": \"moderate\", \"risk_score\": 5.0, \"investment_horizon\": \"medium\"}"
      [] name = "financial_advisor" ->
           "{\"asset_rebalancing\": [\"Configure Google API key for recommendations\"], \"sector_adjustments\": [], \"investment_suggestions\": [], \"risk_warnings\": [], \"action_items\": []}"
      [] OTHER -> "{\"status\": \"fallback\", \"message\": \"LLM unavailable\"}"

\* an except clause that returns the fallback response instead of raising
ReraisedFallback(name, inner, called) ==
    [exc |-> NoExc,
     value |-> IF Catches("Exception", inner.exc.cls) THEN GetFallbackResponse(name) ELSE inner.value,
     called |-> called]

\* lines 96-101: "except Exception" around the body, whose outcome is inner;
\* called tells whether chain.invoke was reached
Reraised(name, inner, called) ==
    [exc |-> IF Catches("Exception", inner.exc.cls)
             THEN Raise("Exception", "LLM call failed in " \o name \o ": " \o inner.exc.msg)
             ELSE inner.exc,
     value |-> inner.value,
     called |-> called]

\* an invoker that reaches chain.invoke before it looks for the key
InvokeLlmCallFirst(name, api_key, llm) == Reraised(name, InvokeChecked(api_key, llm), TRUE)

\* BaseFinancialAgent._invoke_llm: the cleaned answer, or the exception it raises
InvokeLlm(name, api_key, llm) == Reraised(name, InvokeChecked(api_key, llm), api_key)

\* x in list
InSeq(x, list) == \E i \in 1..Len(list) : list[i] = x

\* _update_state without its membership test
UpdateStateUnguarded(name, state) == [state EXCEPT !.completed_agents = Append(@, name)]

\* BaseFinancialAgent._update_state
UpdateState(name, state) ==
    IF ~InSeq(name, state.completed_agents)
    THEN [state EXCEPT !.completed_agents = Append(@, name)]
    ELSE state

\* state.errors.append(error_msg)
AppendError(state, error_msg) == [state EXCEPT !.errors = Append(@, error_msg)]

(***************************************************************************)
(* state.py: the FinancialState record and its defaults                    *)
(***************************************************************************)
PortfolioData(holdings, total_value) ==
    [holdings |-> holdings, total_value |-> total_value,
     asset_allocation |-> <<>>, sector_allocation |-> <<>>, analysis |-> JNull]
MarketData(market_sentiment, sector_outlook, market_indices, last_updated) ==
    [market_sentiment |-> market_sentiment, sector_outlook |-> sector_outlook,
     market_indices |-> market_indices, last_updated |-> last_updated, analysis |-> JNull]
RiskProfile(risk_tolerance, investment_horizon, score) ==
    [risk_tolerance |-> risk_tolerance, investment_horizon |-> investment_horizon,
     score |-> score, assessment |-> JNull]
Recommendations(asset_rebalancing, sector_adjustments, investment_suggestions, risk_warnings, action_items) ==
    [asset_rebalancing |-> asset_rebalancing, sector_adjustments |-> sector_adjustments,
     investment_suggestions |-> investment_suggestions, risk_warnings |-> risk_warnings,
     action_items |-> action_items, detailed_advice |-> JNull]
FinancialState(pdf_content, user_responses) ==
    [pdf_content |-> pdf_content, user_responses |-> user_responses,
     portfolio |-> PortfolioData(<<>>, 0),
     market_data |-> MarketData("neutral", <<>>, <<>>, None),
     risk_profile |-> RiskProfile("moderate", "medium", 0),
     recommendations |-> Recommendations(<<>>, <<>>, <<>>, <<>>, <<>>),
     current_agent |-> "cas_parser", completed_agents |-> <<>>, errors |-> <<>>,
     analysis_complete |-> FALSE, final_report |-> JNull]

\* the outcome of a process call: the state as the call left it, the exception
\* that escaped it (NoExc when it returned), whether it called the capability,
\* and a label of the path it took
Outcome(state, exc, called, path) == [state |-> state, exc |-> exc, called |-> called, path |-> path]

(***************************************************************************)
(* try / except                                                            *)
(***************************************************************************)
\* index of the first except clause that catches cls, 0 when none does
FirstHandler(handlers, cls) ==
    LET hits == {i \in 1..Len(handlers) : Catches(handlers[i].cls, cls)}
    IN IF hits = {} THEN 0 ELSE CHOOSE i \in hits : \A j \in hits : i <= j

\* an except clause of handlers catches the exception of the try body's outcome
Caught(out, handlers) == out.exc # NoExc /\ FirstHandler(handlers, out.exc.cls) # 0

\* the except clauses of a process method applied to the outcome of its try
\* body: the first matching clause appends its message to state.errors; an
\* exception no clause catches escapes the method
TryExcept(out, handlers) ==
    IF Caught(out, handlers)
    THEN Outcome(AppendError(out.state, handlers[FirstHandler(handlers, out.exc.cls)].prefix \o out.exc.msg),
                 NoExc, out.called, out.path)
    ELSE out

\* the fallback value an except clause stores after its message, when one caught
Recovered(out, handlers, fallback) ==
    IF Caught(out, handlers) THEN [TryExcept(out, handlers) EXCEPT !.state = fallback] ELSE out

\* the inner try of an agent around json.loads: the parsed value, or the
\* agent's fallback value when json.loads raised JSONDecodeError
OrFallback(parsed, fallback) ==
    IF Catches("JSONDecodeError", parsed.exc.cls)
    THEN [value |-> fallback, substituted |-> TRUE]
    ELSE [value |-> parsed.value, substituted |-> FALSE]

\* the invoker raised: the try body ends with its exception
InvokeFailed(state, result) == Outcome(state, result.exc, result.called, "invoke_failed")

\* the final "return self._update_state(state)", reached unless an exception escaped
ReturnUpdated(name, out) ==
    IF out.exc = NoExc THEN [out EXCEPT !.state = UpdateState(name, @)] ELSE out

(***************************************************************************)
(* CASParserAgent                                                          *)
(***************************************************************************)
\* a percentage v / total * 100, kept as the exact fraction num / den
Percent(v, total) == [num |-> 100 * v, den |-> total]

RECURSIVE SumValues(_)
SumValues(holdings) ==
    IF holdings = <<>> THEN 0 ELSE Head(holdings).current_value + SumValues(Tail(holdings))

\* an allocation by the number of holdings of each type instead of their value
CalculateAssetAllocationByCount(holdings) ==
    LET types == {holdings[i].asset_type : i \in 1..Len(holdings)}
        OfType(k) == LET Is(h) == h.asset_type = k IN SelectSeq(holdings, Is)
    IN IF holdings = <<>> \/ SumValues(holdings) = 0 THEN <<>>
       ELSE [k \in types |-> Percent(Len(OfType(k)), Len(holdings))]

\* CASParserAgent._calculate_asset_allocation
CalculateAssetAllocation(holdings) ==
    LET total_value == SumValues(holdings)
        types == {holdings[i].asset_type : i \in 1..Len(holdings)}
        OfType(k) == LET Is(h) == h.asset_type = k IN SelectSeq(holdings, Is)
    IN IF holdings = <<>> \/ total_value = 0 THEN <<>>
       ELSE [k \in types |-> Percent(SumValues(OfType(k)), total_value)]

\* a sector allocation over the holdings of every asset type
CalculateSectorAllocationAll(holdings) ==
    LET Counted(h) == h.sector # None /\ h.sector # ""
        sectors == {holdings[i].sector : i \in {j \in 1..Len(holdings) : Counted(holdings[j])}}
        OfSector(k) == LET Is(h) == Counted(h) /\ h.sector = k IN SelectSeq(holdings, Is)
    IN IF holdings = <<>> \/ SumValues(holdings) = 0 THEN <<>>
       ELSE [k \in sectors |-> Percent(SumValues(OfSector(k)), SumValues(holdings))]

\* CASParserAgent._calculate_sector_allocation
CalculateSectorAllocation(holdings) ==
    LET IsEquity(h) == h.asset_type = "equity"
        equity_value == SumValues(SelectSeq(holdings, IsEquity))
        Counted(h) == h.asset_type = "equity" /\ h.sector # None /\ h.sector # ""
        sectors == {holdings[i].sector : i \in {j \in 1..Len(holdings) : Counted(holdings[j])}}
        OfSector(k) == LET Is(h) == Counted(h) /\ h.sector = k IN SelectSeq(holdings, Is)
    IN IF holdings = <<>> \/ equity_value = 0 THEN <<>>
       ELSE [k \in sectors |-> Percent(SumValues(OfSector(k)), equity_value)]

\* Holding(**holding) validates: the required fields are present and typed
HoldingValid(item) ==
    /\ item.t = "dict"
    /\ \A k \in {"symbol", "name", "asset_type"} : k \in DOMAIN item.v /\ item.v[k].t = "str"
    /\ \A k \in {"quantity", "current_value"} : k \in DOMAIN item.v /\ item.v[k].t = "num"
    /\ "sector" \in DOMAIN item.v => item.v["sector"].t \in {"str", "null"}

\* Holding(**holding) of a valid item
Holding(item) ==
    [symbol |-> item.v["symbol"].v, name |-> item.v["name"].v, quantity |-> item.v["quantity"].v,
     current_value |-> item.v["current_value"].v,
     sector |-> IF "sector" \in DOMAIN item.v /\ item.v["sector"].t = "str" THEN item.v["sector"].v ELSE None,
     asset_type |-> item.v["asset_type"].v]

\* a conversion that stores each holding as soon as it is converted
CasParserStorePartial(state, parsed_data) ==
    LET items == Get(parsed_data, "holdings", JList(<<>>)).v
        total_value == Get(parsed_data, "total_value", JNum(0))
        valid == SelectSeq(items, HoldingValid)
        holdings == [i \in 1..Len(valid) |-> Holding(valid[i])]
        stored == [state EXCEPT !.portfolio =
                         [PortfolioData(holdings, IF total_value.t = "num" THEN total_value.v ELSE 0) EXCEPT
                             !.asset_allocation = CalculateAssetAllocation(holdings),
                             !.sector_allocation = CalculateSectorAllocation(holdings)]]
    IN  IF parsed_data.t # "dict"
        THEN Outcome(state, Raise("AttributeError", "'list' object has no attribute 'get'"), TRUE, "malformed")
        ELSE IF \E i \in 1..Len(items) : ~HoldingValid(items[i])
        THEN Outcome(stored, Raise("ValidationError", "3 validation errors for Holding"), TRUE, "malformed")
        ELSE IF total_value.t # "num"
        THEN Outcome(state, Raise("ValidationError", "1 validation error for PortfolioData"), TRUE, "malformed")
        ELSE Outcome(stored, NoExc, TRUE, "success")

\* lines 66-80 of CASParserAgent.process: the parsed answer is converted and stored
CasParserStore(state, parsed_data) ==
    LET items == Get(parsed_data, "holdings", JList(<<>>)).v
        total_value == Get(parsed_data, "total_value", JNum(0))
        holdings == [i \in 1..Len(items) |-> Holding(items[i])]
    IN  IF parsed_data.t # "dict"
        THEN Outcome(state, Raise("AttributeError", "'list' object has no attribute 'get'"), TRUE, "malformed")
        ELSE IF \E i \in 1..Len(items) : ~HoldingValid(items[i])
        THEN Outcome(state, Raise("ValidationError", "3 validation errors for Holding"), TRUE, "malformed")
        ELSE IF total_value.t # "num"
        THEN Outcome(state, Raise("ValidationError", "1 validation error for PortfolioData"), TRUE, "malformed")
        ELSE Outcome([state EXCEPT !.portfolio =
                         [PortfolioData(holdings, total_value.v) EXCEPT
                             !.asset_allocation = CalculateAssetAllocation(holdings),
                             !.sector_allocation = CalculateSectorAllocation(holdings)]],
                     NoExc, TRUE, "success")

\* line 63: json.loads of the answer, which may raise
CasParserLoaded(state, parsed) ==
    IF parsed.exc # NoExc THEN Outcome(state, parsed.exc, TRUE, "malformed")
    ELSE CasParserStore(state, parsed.value)

\* lines 56-80: the body of the try after the guard, for the invoker's result
CasParserParse(state, result) ==
    IF result.exc # NoExc THEN InvokeFailed(state, result)
    ELSE CasParserLoaded(state, JsonLoads(result.value))

CasParserBody(state, api_key, llm) == CasParserParse(state, InvokeLlm("cas_parser", api_key, llm))

\* CASParserAgent.process without its "except Exception" clause
CasParserHandlersJsonOnly == <<[cls |-> "JSONDecodeError", prefix |-> "Failed to parse LLM response as JSON: "]>>

\* the except clauses of CASParserAgent.process, in order
CasParserHandlers == <<[cls |-> "JSONDecodeError", prefix |-> "Failed to parse LLM response as JSON: "],
                       [cls |-> "Exception", prefix |-> "CAS parsing failed: "]>>

\* CASParserAgent.process whose early return forgets _update_state
CasParserProcessUnmarked(state, api_key, llm) ==
    IF state.pdf_content = None \/ state.pdf_content = ""
    THEN Outcome(AppendError(state, "No PDF content provided for parsing"), NoExc, FALSE, "no_input")
    ELSE ReturnUpdated("cas_parser", TryExcept(CasParserBody(state, api_key, llm), CasParserHandlers))

\* CASParserAgent.process without its test of pdf_content
CasParserProcessUnguarded(state, api_key, llm) ==
    ReturnUpdated("cas_parser", TryExcept(CasParserBody(state, api_key, llm), CasParserHandlers))

\* CASParserAgent.process
CasParserProcess(state, api_key, llm) ==
    IF state.pdf_content = None \/ state.pdf_content = ""
    THEN Outcome(UpdateState("cas_parser", AppendError(state, "No PDF content provided for parsing")),
                 NoExc, FALSE, "no_input")
    ELSE ReturnUpdated("cas_parser", TryExcept(CasParserBody(state, api_key, llm), CasParserHandlers))

(***************************************************************************)
(* PortfolioAnalyzerAgent                                                  *)
(***************************************************************************)
DefaultAnalysis ==
    JDict([diversification_score |-> JNum(5),
           concentration_risks |-> JList(<<JStr("No holdings data available")>>),
           key_insights |-> JList(<<JStr("Upload a valid CAS file for detailed analysis")>>)])
InvalidJsonAnalysis ==
    JDict([diversification_score |-> JNum(5),
           concentration_risks |-> JList(<<JStr("LLM returned invalid JSON")>>),
           key_insights |-> JList(<<JStr("Please configure proper API settings for detailed analysis")>>)])

\* a store that builds a new PortfolioData around the analysis
PortfolioAnalyzerStoreRebuilt(state, loaded) ==
    Outcome([state EXCEPT !.portfolio =
                [PortfolioData(state.portfolio.holdings, state.portfolio.total_value)
                    EXCEPT !.analysis = loaded.value]],
            IF loaded.value.t # "dict"
            THEN Raise("AttributeError", "'list' object has no attribute 'get'")
            ELSE NoExc,
            TRUE,
            IF loaded.value.t # "dict" THEN "malformed"
            ELSE IF loaded.substituted THEN "parse_fallback" ELSE "success")

\* lines 98-101 of PortfolioAnalyzerAgent.process: the analysis is stored, then
\* read with analysis.get for the log line
PortfolioAnalyzerStore(state, loaded) ==
    Outcome([state EXCEPT !.portfolio.analysis = loaded.value],
            IF loaded.value.t # "dict"
            THEN Raise("AttributeError", "'list' object has no attribute 'get'")
            ELSE NoExc,
            TRUE,
            IF loaded.value.t # "dict" THEN "malformed"
            ELSE IF loaded.substituted THEN "parse_fallback" ELSE "success")

\* lines 74-101: the body of the try after the guard, for the invoker's result
PortfolioAnalyzerParse(state, result) ==
    IF result.exc # NoExc THEN InvokeFailed(state, result)
    ELSE PortfolioAnalyzerStore(state, OrFallback(JsonLoads(result.value), InvalidJsonAnalysis))

PortfolioAnalyzerBody(state, api_key, llm) ==
    PortfolioAnalyzerParse(state, InvokeLlm("portfolio_analyzer", api_key, llm))

\* the except clauses of PortfolioAnalyzerAgent.process, in order
PortfolioAnalyzerHandlers ==
    <<[cls |-> "JSONDecodeError", prefix |-> "Failed to parse portfolio analysis JSON: "],
      [cls |-> "Exception", prefix |-> "Portfolio analysis failed: "]>>

\* PortfolioAnalyzerAgent.process that reports missing holdings as an error
PortfolioAnalyzerProcessErroring(state, api_key, llm) ==
    IF state.portfolio.holdings = <<>>
    THEN Outcome(UpdateState("portfolio_analyzer",
                             AppendError(state, "No portfolio holdings available for analysis")),
                 NoExc, FALSE, "no_holdings")
    ELSE ReturnUpdated("portfolio_analyzer",
             TryExcept(PortfolioAnalyzerBody(state, api_key, llm), PortfolioAnalyzerHandlers))

\* PortfolioAnalyzerAgent.process
PortfolioAnalyzerProcess(state, api_key, llm) ==
    IF state.portfolio.holdings = <<>>
    THEN Outcome(UpdateState("portfolio_analyzer", [state EXCEPT !.portfolio.analysis = DefaultAnalysis]),
                 NoExc, FALSE, "no_holdings")
    ELSE ReturnUpdated("portfolio_analyzer",
             TryExcept(PortfolioAnalyzerBody(state, api_key, llm), PortfolioAnalyzerHandlers))

(***************************************************************************)
(* MarketOutlookAgent                                                      *)
(***************************************************************************)
\* datetime.now().isoformat()
Now == "2024-01-01T09:30:00"

IndexNames == {"NIFTY 50", "SENSEX"}
\* the quote _fetch_market_data stores for an index it could fetch
Quote == [price |-> 100, change_pct |-> 1]

\* a _fetch_market_data whose except clause hands back quotes it kept from
\* an earlier fetch
FetchMarketDataStale(fetched, failed) ==
    IF failed
    THEN [indices |-> [n \in IndexNames |-> Quote], sectors |-> <<>>,
          trends |-> <<"Market data temporarily unavailable">>]
    ELSE [indices |-> [n \in fetched |-> Quote],
          sectors |-> [IT |-> "Mixed performance with earnings pressure",
                       Banking |-> "Stable growth with credit expansion"],
          trends |-> <<"FII flows turned positive in recent sessions", "RBI maintains accommodative stance">>]

\* MarketOutlookAgent._fetch_market_data: fetched is the set of indices whose
\* history yfinance returned; failed tells that the fetch as a whole raised
FetchMarketData(fetched, failed) ==
    IF failed
    THEN [indices |-> <<>>, sectors |-> <<>>, trends |-> <<"Market data temporarily unavailable">>]
    ELSE [indices |-> [n \in fetched |-> Quote],
          sectors |-> [IT |-> "Mixed performance with earnings pressure",
                       Banking |-> "Stable growth with credit expansion"],
          trends |-> <<"FII flows turned positive in recent sessions", "RBI maintains accommodative stance">>]

\* lines 68-73: the parameters of the request the agent hands to the invoker
MarketOutlookRequest(market_data) ==
    [market_indices |-> market_data.indices, sector_performance |-> market_data.sectors,
     recent_trends |-> market_data.trends]

InvalidJsonOutlook ==
    JDict([market_sentiment |-> JStr("neutral"),
           sector_outlook |-> JDict([IT |-> JStr("Mixed performance"), Banking |-> JStr("Stable")]),
           key_trends |-> JList(<<JStr("LLM returned invalid JSON - using fallback data")>>)])

IsStrDict(j) == j.t = "dict" /\ \A k \in DOMAIN j.v : j.v[k].t = "str"
StrDict(j) == [k \in DOMAIN j.v |-> j.v[k].v]

\* lines 86-97 of MarketOutlookAgent.process: MarketData is built and stored.
\* MarketData validates its fields: market_indices is Dict[str, float], and the
\* quotes _fetch_market_data stores are dicts
MarketOutlookStore(state, loaded, market_data) ==
    LET analysis == loaded.value
        sentiment == Get(analysis, "market_sentiment", JStr("neutral"))
        sector_outlook == Get(analysis, "sector_outlook", EmptyDict)
    IN  IF analysis.t # "dict"
        THEN Outcome(state, Raise("AttributeError", "'list' object has no attribute 'get'"), TRUE, "malformed")
        ELSE IF sentiment.t # "str" \/ ~IsStrDict(sector_outlook) \/ DOMAIN market_data.indices # {}
        THEN Outcome(state, Raise("ValidationError", "1 validation error for MarketData"), TRUE, "malformed")
        ELSE Outcome([state EXCEPT !.market_data =
                         [MarketData(sentiment.v, StrDict(sector_outlook), market_data.indices, Now)
                             EXCEPT !.analysis = analysis]],
                     NoExc, TRUE, IF loaded.substituted THEN "parse_fallback" ELSE "success")

\* lines 67-97: the body of the try after the fetch, for the invoker's result
MarketOutlookParse(state, result, market_data) ==
    IF result.exc # NoExc THEN InvokeFailed(state, result)
    ELSE MarketOutlookStore(state, OrFallback(JsonLoads(result.value), InvalidJsonOutlook), market_data)

MarketOutlookBody(state, api_key, llm, market_data) ==
    MarketOutlookParse(state, InvokeLlm("market_outlook", api_key, llm), market_data)

\* the except clause of MarketOutlookAgent.process
MarketOutlookHandlers == <<[cls |-> "Exception", prefix |-> "Market analysis failed: "]>>

\* lines 104-110: the fallback market data
MarketOutlookRecover(state) == [state EXCEPT !.market_data = MarketData("neutral", <<>>, <<>>, Now)]

\* lines 99-112: the except clause and the return, for the try body's outcome
MarketOutlookExcept(out) ==
    ReturnUpdated("market_outlook",
        Recovered(out, MarketOutlookHandlers, MarketOutlookRecover(TryExcept(out, MarketOutlookHandlers).state)))

\* MarketOutlookAgent.process
MarketOutlookProcess(state, api_key, llm, fetched, failed) ==
    MarketOutlookExcept(MarketOutlookBody(state, api_key, llm, FetchMarketData(fetched, failed)))

(***************************************************************************)
(* RiskProfilerAgent                                                       *)
(***************************************************************************)
InvalidJsonAssessment ==
    JDict([risk_tolerance |-> JStr("moderate"), risk_score |-> JNum(5), investment_horizon |-> JStr("medium"),
           profile_analysis |-> JDict([note |-> JStr("LLM returned invalid JSON - using default profile")])])

\* lines 84-94 of RiskProfilerAgent.process: RiskProfile is built and stored
RiskProfilerStore(state, loaded) ==
    LET assessment == loaded.value
        risk_tolerance == Get(assessment, "risk_tolerance", JStr("moderate"))
        investment_horizon == Get(assessment, "investment_horizon", JStr("medium"))
        score == Get(assessment, "risk_score", JNum(5))
    IN  IF assessment.t # "dict"
        THEN Outcome(state, Raise("AttributeError", "'list' object has no attribute 'get'"), TRUE, "malformed")
        ELSE IF risk_tolerance.t # "str" \/ investment_horizon.t # "str" \/ score.t # "num"
        THEN Outcome(state, Raise("ValidationError", "1 validation error for RiskProfile"), TRUE, "malformed")
        ELSE Outcome([state EXCEPT !.risk_profile =
                         [RiskProfile(risk_tolerance.v, investment_horizon.v, score.v)
                             EXCEPT !.assessment = assessment]],
                     NoExc, TRUE, IF loaded.substituted THEN "parse_fallback" ELSE "success")

\* lines 60-94: the body of the try, for the invoker's result
RiskProfilerParse(state, result) ==
    IF result.exc # NoExc THEN InvokeFailed(state, result)
    ELSE RiskProfilerStore(state, OrFallback(JsonLoads(result.value), InvalidJsonAssessment))

RiskProfilerBody(state, api_key, llm) == RiskProfilerParse(state, InvokeLlm("risk_profiler", api_key, llm))

\* the except clauses of RiskProfilerAgent.process, in order
RiskProfilerHandlers ==
    <<[cls |-> "JSONDecodeError", prefix |-> "Failed to parse risk assessment JSON: "],
      [cls |-> "Exception", prefix |-> "Risk profiling failed: "]>>

\* lines 101-106 and 112-117: the fallback risk profile
RiskProfilerRecover(state) == [state EXCEPT !.risk_profile = RiskProfile("moderate", "medium", 5)]

\* lines 96-119: the except clauses and the return, for the try body's outcome
RiskProfilerExcept(out) ==
    ReturnUpdated("risk_profiler",
        Recovered(out, RiskProfilerHandlers, RiskProfilerRecover(TryExcept(out, RiskProfilerHandlers).state)))

\* RiskProfilerAgent.process
RiskProfilerProcess(state, api_key, llm) == RiskProfilerExcept(RiskProfilerBody(state, api_key, llm))

(***************************************************************************)
(* FinancialAdvisorAgent                                                   *)
(***************************************************************************)
InvalidJsonAdvice ==
    JDict([asset_rebalancing |-> JList(<<JStr("LLM returned invalid JSON - please configure API properly")>>),
           sector_adjustments |-> JList(<<JStr("Review portfolio diversification")>>),
           investment_suggestions |-> JList(<<JStr("Consider systematic investment plans")>>),
           risk_warnings |-> JList(<<JStr("Monitor portfolio concentration")>>),
           action_items |-> JList(<<JStr("Set up proper Google API key for detailed recommendations")>>)])

IsStrList(j) == j.t = "list" /\ \A i \in 1..Len(j.v) : j.v[i].t = "str"
StrList(j) == [i \in 1..Len(j.v) |-> j.v[i].v]

\* _generate_final_report without its return statement
GenerateFinalReportNone(state, advice) == JNull

\* FinancialAdvisorAgent._generate_final_report, for a priority_score that is a dict
GenerateFinalReport(state, advice) ==
    JDict([portfolio_summary |-> [total_value |-> state.portfolio.total_value,
                                  asset_allocation |-> state.portfolio.asset_allocation,
                                  sector_allocation |-> state.portfolio.sector_allocation,
                                  holdings_count |-> Len(state.portfolio.holdings)],
           risk_assessment |-> [risk_tolerance |-> state.risk_profile.risk_tolerance,
                                risk_score |-> state.risk_profile.score,
                                investment_horizon |-> state.risk_profile.investment_horizon],
           market_context |-> [sentiment |-> state.market_data.market_sentiment,
                               last_updated |-> state.market_data.last_updated],
           recommendations |-> advice,
           next_steps |-> Get(advice, "action_items", JList(<<>>)),
           priority_actions |-> Get(Get(advice, "priority_score", EmptyDict), "high", JList(<<>>))])

\* fallback recommendations with the lists of the invoker's canned response
FallbackRecommendationsBare ==
    Recommendations(<<"Configure Google API key for recommendations">>, <<>>, <<>>, <<>>, <<>>)

\* FinancialAdvisorAgent._get_fallback_recommendations
FallbackRecommendations ==
    Recommendations(<<"Consider rebalancing portfolio for better diversification",
                      "Review asset allocation based on risk tolerance">>,
                    <<"Diversify across multiple sectors", "Avoid concentration in single sector">>,
                    <<"Consider systematic investment plans (SIPs)", "Explore debt instruments for stability">>,
                    <<"Monitor portfolio concentration risks", "Keep emergency fund separate from investments">>,
                    <<"Review portfolio monthly", "Consult with financial advisor",
                      "Stay updated with market conditions">>)

RecommendationKeys ==
    <<"asset_rebalancing", "sector_adjustments", "investment_suggestions", "risk_warnings", "action_items">>

\* lines 131-133 of FinancialAdvisorAgent.process: the report is generated from
\* the state that holds the recommendations, and the flag set
FinancialAdvisorReport(recommended, advice, substituted) ==
    IF Get(advice, "priority_score", EmptyDict).t # "dict"
    THEN Outcome(recommended, Raise("AttributeError", "'str' object has no attribute 'get'"), TRUE, "malformed")
    ELSE Outcome([recommended EXCEPT !.final_report = GenerateFinalReport(recommended, advice),
                                     !.analysis_complete = TRUE],
                 NoExc, TRUE, IF substituted THEN "parse_fallback" ELSE "success")

\* lines 119-133: Recommendations is built and stored, then the report
FinancialAdvisorStore(state, loaded) ==
    LET advice == loaded.value
        list == [i \in 1..5 |-> Get(advice, RecommendationKeys[i], JList(<<>>))]
    IN  IF advice.t # "dict"
        THEN Outcome(state, Raise("AttributeError", "'list' object has no attribute 'get'"), TRUE, "malformed")
        ELSE IF \E i \in 1..5 : ~IsStrList(list[i])
        THEN Outcome(state, Raise("ValidationError", "1 validation error for Recommendations"), TRUE, "malformed")
        ELSE FinancialAdvisorReport(
                 [state EXCEPT !.recommendations =
                     [Recommendations(StrList(list[1]), StrList(list[2]), StrList(list[3]),
                                      StrList(list[4]), StrList(list[5]))
                         EXCEPT !.detailed_advice = advice]],
                 advice, loaded.substituted)

\* lines 88-135: the body of the try, for the invoker's result
FinancialAdvisorParse(state, result) ==
    IF result.exc # NoExc THEN InvokeFailed(state, result)
    ELSE FinancialAdvisorStore(state, OrFallback(JsonLoads(result.value), InvalidJsonAdvice))

FinancialAdvisorBody(state, api_key, llm) ==
    FinancialAdvisorParse(state, InvokeLlm("financial_advisor", api_key, llm))

\* the except clauses of FinancialAdvisorAgent.process, in order
FinancialAdvisorHandlers ==
    <<[cls |-> "JSONDecodeError", prefix |-> "Failed to parse financial advice JSON: "],
      [cls |-> "Exception", prefix |-> "Financial advice generation failed: "]>>

\* except clauses that also build a report from the fallback recommendations
FinancialAdvisorRecoverReport(state) ==
    [state EXCEPT !.recommendations = FallbackRecommendations,
                  !.final_report = GenerateFinalReport(state, EmptyDict)]

\* lines 142-143 and 149-150: the fallback recommendations
FinancialAdvisorRecover(state) == [state EXCEPT !.recommendations = FallbackRecommendations]

\* lines 137-152: the except clauses and the return, for the try body's outcome
FinancialAdvisorExcept(out) ==
    ReturnUpdated("financial_advisor",
        Recovered(out, FinancialAdvisorHandlers,
                  FinancialAdvisorRecover(TryExcept(out, FinancialAdvisorHandlers).state)))

\* FinancialAdvisorAgent.process
FinancialAdvisorProcess(state, api_key, llm) == FinancialAdvisorExcept(FinancialAdvisorBody(state, api_key, llm))

(***************************************************************************)
(* The environment of a run                                                *)
(***************************************************************************)
PdfContents == {None, "", "NSDL CAS statement"}
UserResponses == {<<>>, [age_group |-> "30-45"]}

\* what the capability may do with an agent's request
LlmOutcomes(name) ==
    {LlmOutcome("timeout", ""), LlmOutcome("error", "")} \cup {LlmOutcome("content", c) : c \in Answers(name)}

\* what the market-data collaborator may do: the indices it could fetch; only
\* the market outlook agent asks it
NoFetch == [fetched |-> {}, failed |-> FALSE]
FetchOutcomes(name) ==
    IF name = "market_outlook"
    THEN {[fetched |-> f, failed |-> FALSE] : f \in SUBSET IndexNames} \cup {[fetched |-> {}, failed |-> TRUE]}
    ELSE {NoFetch}

(***************************************************************************)
(* FinancialOrchestrator                                                   *)
(***************************************************************************)
VARIABLES
    state,      \* current_state, the FinancialState of the run
    pc,         \* the agent process_financial_planning_sync is about to consider,
                \* "finish" before line 149, "returned" after the return
    api_key,    \* whether GOOGLE_API_KEY is set in the environment
    ran,        \* the agents the run has executed, in order (the _run_ methods entered)
    last,       \* the last process call: its agent, the exception that escaped it,
                \* whether it called the capability, its path, len(errors) before
                \* it, what the capability did or would have done (llm), and
                \* what the market-data collaborator did (fetch)
    calls,      \* number of process calls made directly on the record (SpecAny)
    response,   \* what upload_cas_file handed back: a JSONResponse or a raised exception
    runs,       \* two runs in one process (SpecTwo): for each its thread, its
                \* FinancialState, its position and the call it has in flight
    alarm,      \* the SIGALRM alarm of the process: whether one is pending and
                \* the run whose timeout_handler set it
    actor,      \* the run that took the last step of SpecTwo, 0 for the alarm
                \* and for the capability
    late        \* for each run of SpecTwo the call its alarm cut off, if any:
                \* the agent that made it and whether its answer has come since

\* the variables of SpecTwo
two == <<runs, alarm, actor, late>>
vars == <<state, pc, api_key, ran, last, calls, response, two>>

NoCall ==
    [agent |-> "none", exc |-> NoExc, called |-> FALSE, path |-> "none", errors_before |-> 0,
     llm |-> LlmOutcome("none", ""), fetch |-> NoFetch]
Call(name, before, out, llm, fetch) ==
    [agent |-> name, exc |-> out.exc, called |-> out.called, path |-> out.path,
     errors_before |-> Len(before.errors), llm |-> llm, fetch |-> fetch]

\* agent.process(state) for the agent called name
Process(name, st, key, llm, fetch) ==
    CASE name = "cas_parser" -> CasParserProcess(st, key, llm)
      [] name = "portfolio_analyzer" -> PortfolioAnalyzerProcess(st, key, llm)
      [] name = "market_outlook" -> MarketOutlookProcess(st, key, llm, fetch.fetched, fetch.failed)
      [] name = "risk_profiler" -> RiskProfilerProcess(st, key, llm)
      [] OTHER -> FinancialAdvisorProcess(st, key, llm)

\* a sequence of statements that goes from the CAS parser to the market outlook
AfterSkipping(name) ==
    CASE name = "cas_parser" -> "market_outlook"
      [] name = "portfolio_analyzer" -> "market_outlook"
      [] name = "market_outlook" -> "risk_profiler"
      [] name = "risk_profiler" -> "financial_advisor"
      [] OTHER -> "finish"

\* the pc after the agent called name
After(name) ==
    CASE name = "cas_parser" -> "portfolio_analyzer"
      [] name = "portfolio_analyzer" -> "market_outlook"
      [] name = "market_outlook" -> "risk_profiler"
      [] name = "risk_profiler" -> "financial_advisor"
      [] OTHER -> "finish"

\* the sequence of lines 130-147 without its "if not current_state.errors" tests
ShouldRunAlways(name, st) == TRUE

\* a sequence in which only the financial advisor's statement tests the errors
ShouldRunUntilAdvisor(name, st) == name # "financial_advisor" \/ st.errors = <<>>

\* whether process_financial_planning_sync runs the agent called name on st
ShouldRun(name, st) == name = "cas_parser" \/ st.errors = <<>>

\* the return of the _run_ method of the agent called name with the outcome
\* out, and the except clause of lines 152-154 when the agent raised
Ran(name, llm, fetch, out) ==
    /\ ran' = Append(ran, name)
    /\ last' = Call(name, state, out, llm, fetch)
    /\ IF out.exc = NoExc
       THEN /\ state' = out.state
            /\ pc' = After(name)
       ELSE /\ state' = AppendError(out.state, "Agent execution failed: " \o out.exc.msg)
            /\ pc' = "returned"
    /\ UNCHANGED <<api_key, calls, response, two>>

\* the _run_ method of the agent called name: current_agent is set and the
\* agent's process called
RunAgent(name, llm, fetch) ==
    Ran(name, llm, fetch, Process(name, [state EXCEPT !.current_agent = name], api_key, llm, fetch))

\* one "if not current_state.errors:" statement of lines 130-147
Step(name) ==
    /\ pc = name
    /\ IF ShouldRun(name, state)
       THEN \E llm \in LlmOutcomes(name), fetch \in FetchOutcomes(name) : RunAgent(name, llm, fetch)
       ELSE /\ pc' = After(name)
            /\ UNCHANGED <<state, api_key, ran, last, calls, response, two>>

StepCasParser == Step("cas_parser")
StepPortfolioAnalyzer == Step("portfolio_analyzer")
StepMarketOutlook == Step("market_outlook")
StepRiskProfiler == Step("risk_profiler")
StepFinancialAdvisor == Step("financial_advisor")

\* a return that hands back a fresh state with the flag set
FinishFresh ==
    /\ pc = "finish"
    /\ state' = [FinancialState(state.pdf_content, state.user_responses) EXCEPT !.analysis_complete = TRUE]
    /\ pc' = "returned"
    /\ UNCHANGED <<api_key, ran, last, calls, response, two>>

\* lines 149-156: the flag is set and the state returned
Finish ==
    /\ pc = "finish"
    /\ state' = [state EXCEPT !.analysis_complete = TRUE]
    /\ pc' = "returned"
    /\ UNCHANGED <<api_key, ran, last, calls, response, two>>

(***************************************************************************)
(* main.py: upload_cas_file, the boundary around a run                     *)
(***************************************************************************)
\* lines 76-78 and 97: the keywords of the two list comprehensions
FatalKeywords ==
    <<"timeout", "api key", "fallback", "mock data", "no portfolio holdings",
      "no holdings available", "no field", "analysis", "parse", "json">>
WarningKeywords == <<"timeout", "api key", "fallback", "mock data">>

\* any(keyword in error.lower() for keyword in keywords)
AnyKeyword(keywords, error) == \E i \in 1..Len(keywords) : InLower(keywords[i], error)

\* a classifier that excuses no error
FatalErrorsAll(errors) == errors

\* lines 74-78: the errors no keyword excuses
FatalErrors(errors) ==
    LET IsFatal(error) == ~AnyKeyword(FatalKeywords, error) IN SelectSeq(errors, IsFatal)

\* lines 95-97: the errors reported as warnings
Warnings(errors) ==
    LET IsWarning(error) == AnyKeyword(WarningKeywords, error) IN SelectSeq(errors, IsWarning)

\* sep.join(list)
RECURSIVE Join(_, _)
Join(sep, list) ==
    IF list = <<>> THEN ""
    ELSE IF Len(list) = 1 THEN list[1]
    ELSE list[1] \o sep \o Join(sep, Tail(list))

\* sorted(holdings, key=current_value, reverse=True)[:5]: stable, so equal
\* values keep their order
TopHoldings(holdings) ==
    LET n == Len(holdings)
        Before(i, j) ==
            \/ holdings[i].current_value > holdings[j].current_value
            \/ holdings[i].current_value = holdings[j].current_value /\ i < j
        order == CHOOSE p \in [1..n -> 1..n] : \A i, j \in 1..n : i < j => Before(p[i], p[j])
    IN  [i \in 1..Min({n, 5}) |->
            [name |-> holdings[order[i]].name, symbol |-> holdings[order[i]].symbol,
             value |-> holdings[order[i]].current_value, asset_type |-> holdings[order[i]].asset_type]]

\* a status whose progress is the plain fraction, not multiplied by 100
GetWorkflowStatusFraction(st) ==
    [current_agent |-> st.current_agent,
     completed_agents |-> st.completed_agents,
     progress_percentage |-> [num |-> Len(st.completed_agents), den |-> Len(AgentNames)],
     errors |-> st.errors,
     analysis_complete |-> st.analysis_complete]

\* FinancialOrchestrator.get_workflow_status
GetWorkflowStatus(st) ==
    [current_agent |-> st.current_agent,
     completed_agents |-> st.completed_agents,
     progress_percentage |-> Percent(Len(st.completed_agents), Len(AgentNames)),
     errors |-> st.errors,
     analysis_complete |-> st.analysis_complete]

JSONResponse(status_code, content) == [kind |-> "json", status_code |-> status_code, content |-> content]
\* an exception that leaves upload_cas_file
Raised(exc) == [kind |-> "raised", exc |-> exc]

\* lines 85-92: the answer when some error is fatal
ErrorResponse(fatal_errors) ==
    JSONResponse(400, [status |-> "error", message |-> Join("; ", fatal_errors), errors |-> fatal_errors])

\* lines 94-142: the answer when no error is fatal
SuccessResponse(result_state, warnings) ==
    JSONResponse(200,
        [status |-> "success",
         message |-> "CAS file processed and analyzed successfully"
                        \o (IF warnings # <<>> THEN " (using mock data)" ELSE ""),
         warnings |-> warnings,
         data |->
            [portfolio |->
                [total_value |-> result_state.portfolio.total_value,
                 asset_allocation |-> result_state.portfolio.asset_allocation,
                 sector_allocation |-> result_state.portfolio.sector_allocation,
                 holdings_count |-> Len(result_state.portfolio.holdings),
                 top_holdings |-> TopHoldings(result_state.portfolio.holdings)],
             analysis |->
                [risk_profile |->
                    [risk_tolerance |-> result_state.risk_profile.risk_tolerance,
                     risk_score |-> result_state.risk_profile.score,
                     investment_horizon |-> result_state.risk_profile.investment_horizon],
                 market_context |->
                    [sentiment |-> result_state.market_data.market_sentiment,
                     sector_outlook |-> result_state.market_data.sector_outlook],
                 recommendations |->
                    [asset_rebalancing |-> result_state.recommendations.asset_rebalancing,
                     sector_adjustments |-> result_state.recommendations.sector_adjustments,
                     investment_suggestions |-> result_state.recommendations.investment_suggestions,
                     action_items |-> result_state.recommendations.action_items]],
             workflow_status |-> GetWorkflowStatus(result_state)]])

\* lines 73-142 for the fatal errors found in result_state
VerdictFor(result_state, fatal_errors) ==
    IF fatal_errors # <<>>
    THEN ErrorResponse(fatal_errors)
    ELSE SuccessResponse(result_state, Warnings(result_state.errors))

\* lines 73-142 of upload_cas_file: the answer for the state a run returned
Verdict(result_state) == VerdictFor(result_state, FatalErrors(result_state.errors))

\* lines 144-155: the except clause of upload_cas_file for the exception e
UploadFailed(e) ==
    IF InLower("password", e.msg)
    THEN JSONResponse(400, [status |-> "error", message |-> "Password required or incorrect password",
                            error_type |-> "password_required"])
    ELSE Raised(Raise("HTTPException", "500: Error processing file: " \o e.msg))

\* lines 175-178: the except clause of extract_pdf_text for the exception e
ExtractFailed(e) ==
    IF InLower("password", e.msg) \/ InLower("decrypt", e.msg)
    THEN Raise("Exception", "Password required or incorrect password provided")
    ELSE e

\* lines 164-168: the text of the pages that have some
RECURSIVE PagesText(_)
PagesText(pages) ==
    IF pages = <<>> THEN ""
    ELSE (IF Head(pages) # None /\ Head(pages) # "" THEN Head(pages) \o "\n" ELSE "") \o PagesText(Tail(pages))

\* lines 170-173 for the text of the pages
ExtractedText(text) ==
    IF Strip(text) = ""
    THEN [exc |-> ExtractFailed(Raise("Exception", "No text content found in PDF")), text |-> ""]
    ELSE [exc |-> NoExc, text |-> text]

\* extract_pdf_text: the text of the document, or the exception it raises;
\* opened is what pdfplumber did with the bytes: its pages, or an exception
ExtractPdfText(opened) ==
    IF opened.exc # NoExc
    THEN [exc |-> ExtractFailed(opened.exc), text |-> ""]
    ELSE ExtractedText(PagesText(opened.pages))

\* what pdfplumber may do with an uploaded document
Documents ==
    {[exc |-> NoExc, pages |-> pages] :
        pages \in {<<>>, <<None>>, <<" ">>, <<"NSDL CAS statement">>, <<"NSDL CAS", None, "statement">>}}
    \cup {[exc |-> Raise("PDFPasswordIncorrect", msg), pages |-> <<>>] : msg \in {"", "Incorrect password"}}
    \cup {[exc |-> Raise("PDFSyntaxError", "No /Root object! - Is this really a PDF?"), pages |-> <<>>],
          [exc |-> Raise("PDFEncryptionError", "Unknown algorithm: could not decrypt"), pages |-> <<>>]}
Filenames == {"cas.pdf", "CAS.PDF", "cas.txt", "pdf"}

\* file.filename.lower().endswith('.pdf')
IsPdfName(filename) ==
    Len(filename) >= 4 /\ InLower(".pdf", SubSeq(filename, Len(filename) - 3, Len(filename)))

\* lines 68-142: the run has returned result_state and the answer is built
Respond ==
    /\ pc = "returned"
    /\ response' = Verdict(state)
    /\ pc' = "responded"
    /\ UNCHANGED <<state, api_key, ran, last, calls, two>>

\* upload_cas_file ends in its except clause with the exception e
Failed(e) ==
    /\ response' = UploadFailed(e)
    /\ pc' = "responded"
    /\ UNCHANGED <<state, api_key, ran, last, calls, two>>

\* lines 51-66 for the file name and what extract_pdf_text made of the
\* document; lines 118-126 of process_financial_planning_sync build the state
Uploaded(filename, extracted) ==
    IF ~IsPdfName(filename)
    THEN Failed(Raise("HTTPException", "400: Only PDF files are allowed"))
    ELSE IF extracted.exc # NoExc
    THEN Failed(extracted.exc)
    ELSE /\ state' = FinancialState(extracted.text, <<>>)
         /\ pc' = "cas_parser"
         /\ UNCHANGED <<api_key, ran, last, calls, response, two>>

\* lines 51-66 of upload_cas_file
Upload ==
    /\ pc = "upload"
    /\ \E filename \in Filenames, opened \in Documents : Uploaded(filename, ExtractPdfText(opened))

\* no alarm is pending
NoAlarm == [armed |-> FALSE, by |-> 0]

\* upload_cas_file has not handed anything back
NoResponse == [kind |-> "none"]

\* lines 118-126: process_financial_planning_sync builds the initial state
Init ==
    /\ \E pdf_content \in PdfContents, user_responses \in UserResponses :
          state = FinancialState(pdf_content, user_responses)
    /\ pc = "cas_parser"
    /\ api_key \in BOOLEAN
    /\ ran = <<>>
    /\ last = NoCall
    /\ calls = 0
    /\ response = NoResponse
    /\ runs = <<>> /\ alarm = NoAlarm /\ actor = 0 /\ late = <<>>

Next ==
    \/ StepCasParser
    \/ StepPortfolioAnalyzer
    \/ StepMarketOutlook
    \/ StepRiskProfiler
    \/ StepFinancialAdvisor
    \/ Finish
    \/ Respond

Spec == Init /\ [][Next]_vars

(***************************************************************************)
(* Agents called directly on a record, in any order and any number of      *)
(* times up to MaxInvocations                                              *)
(***************************************************************************)
Invoked(name, llm, fetch, out) ==
    /\ state' = out.state
    /\ last' = Call(name, state, out, llm, fetch)
    /\ calls' = calls + 1
    /\ UNCHANGED <<pc, api_key, ran, response, two>>

Invoke(name) ==
    /\ pc = "direct"
    /\ calls < MaxInvocations
    /\ \E llm \in LlmOutcomes(name), fetch \in FetchOutcomes(name) :
          Invoked(name, llm, fetch, Process(name, state, api_key, llm, fetch))

InvokeCasParser == Invoke("cas_parser")
InvokePortfolioAnalyzer == Invoke("portfolio_analyzer")
InvokeMarketOutlook == Invoke("market_outlook")
InvokeRiskProfiler == Invoke("risk_profiler")
InvokeFinancialAdvisor == Invoke("financial_advisor")

InitAny ==
    /\ \E pdf_content \in PdfContents, user_responses \in UserResponses :
          state = FinancialState(pdf_content, user_responses)
    /\ pc = "direct"
    /\ api_key \in BOOLEAN
    /\ ran = <<>>
    /\ last = NoCall
    /\ calls = 0
    /\ response = NoResponse
    /\ runs = <<>> /\ alarm = NoAlarm /\ actor = 0 /\ late = <<>>

NextAny ==
    \/ InvokeCasParser
    \/ InvokePortfolioAnalyzer
    \/ InvokeMarketOutlook
    \/ InvokeRiskProfiler
    \/ InvokeFinancialAdvisor

SpecAny == InitAny /\ [][NextAny]_vars

(***************************************************************************)
(* upload_cas_file as a whole: the upload, the run, the answer             *)
(***************************************************************************)
\* before line 118 no record exists: state holds the defaults of FinancialState
InitUpload ==
    /\ state = FinancialState(None, <<>>)
    /\ pc = "upload"
    /\ api_key \in BOOLEAN
    /\ ran = <<>>
    /\ last = NoCall
    /\ calls = 0
    /\ response = NoResponse
    /\ runs = <<>> /\ alarm = NoAlarm /\ actor = 0 /\ late = <<>>

NextUpload ==
    \/ Upload
    \/ StepCasParser
    \/ StepPortfolioAnalyzer
    \/ StepMarketOutlook
    \/ StepRiskProfiler
    \/ StepFinancialAdvisor
    \/ Finish
    \/ Respond

SpecUpload == InitUpload /\ [][NextUpload]_vars

(***************************************************************************)
(* The allocations of the CAS parser, computed for any list of holdings    *)
(***************************************************************************)
\* the longest list of holdings the allocations are computed for
MaxHoldings == 2

\* the holdings a parsed answer may carry: values that are negative, zero or
\* positive, two asset types, and a sector that is missing, empty or named
HoldingValues == {-400, 0, 400, 600}
AssetTypes == {"equity", "debt"}
Sectors == {None, "", "IT", "Govt"}
Holdings ==
    {[symbol |-> "SYM", name |-> "Name", quantity |-> 1, current_value |-> v, sector |-> sec,
      asset_type |-> t] : v \in HoldingValues, sec \in Sectors, t \in AssetTypes}
HoldingLists == UNION {[1..n -> Holdings] : n \in 0..MaxHoldings}

\* lines 71-74 of CASParserAgent.process have stored the holdings converted
\* from an answer that reported no total_value
InitAlloc ==
    /\ \E holdings \in HoldingLists :
          state = [FinancialState("NSDL CAS statement", <<>>) EXCEPT !.portfolio = PortfolioData(holdings, 0)]
    /\ pc = "allocate"
    /\ api_key = TRUE
    /\ ran = <<>>
    /\ last = NoCall
    /\ calls = 0
    /\ response = NoResponse
    /\ runs = <<>> /\ alarm = NoAlarm /\ actor = 0 /\ late = <<>>

\* lines 77-78 of CASParserAgent.process: the two allocations are computed
\* from the holdings and stored
Allocate ==
    /\ pc = "allocate"
    /\ state' = [state EXCEPT
                    !.portfolio.asset_allocation = CalculateAssetAllocation(state.portfolio.holdings),
                    !.portfolio.sector_allocation = CalculateSectorAllocation(state.portfolio.holdings)]
    /\ pc' = "allocated"
    /\ UNCHANGED <<api_key, ran, last, calls, response, two>>

NextAlloc == Allocate

SpecAlloc == InitAlloc /\ [][NextAlloc]_vars

(***************************************************************************)
(* Two runs of process_financial_planning_sync in one process, each in a   *)
(* thread of its own, on the one orchestrator of main.py                   *)
(***************************************************************************)
Runs == {1, 2}
Threads == {"main", "worker"}

\* signal.signal accepts the handler in any thread
CanSetSignalAnywhere(thread) == TRUE

\* line 20 of timeout_handler: signal.signal sets a handler only in the main
\* thread of the process; in any other thread it raises ValueError
CanSetSignal(thread) == thread = "main"

\* whether the process method of the agent called name gets to self._invoke_llm
ReachesInvoker(name, st) ==
    CASE name = "cas_parser" -> st.pdf_content # None /\ st.pdf_content # ""
      [] name = "portfolio_analyzer" -> st.portfolio.holdings # <<>>
      [] OTHER -> TRUE

\* the texts the capability answers with in SpecTwo: a well-formed one and prose
TwoAnswers(name) ==
    {TxtProse} \cup
    CASE name = "cas_parser" -> {TxtCasMixed}
      [] name = "portfolio_analyzer" -> {TxtAnalysis}
      [] name = "market_outlook" -> {TxtOutlook}
      [] name = "risk_profiler" -> {TxtRisk}
      [] OTHER -> {TxtAdvice}

NoAnswer == LlmOutcome("none", "")
Idle == [active |-> FALSE, fetch |-> NoFetch, fetching |-> FALSE]
InFlight(fetch) == [active |-> TRUE, fetch |-> fetch, fetching |-> FALSE]
\* the run is in _fetch_market_data, in ticker.history of yfinance: the call
\* is made outside timeout_handler and is given no timeout of its own
Fetching == [active |-> FALSE, fetch |-> NoFetch, fetching |-> TRUE]

\* the run r is in chain.invoke under the alarm its own timeout_handler set
Bounded(r) == runs[r].call.active /\ alarm.armed /\ alarm.by = r

\* the process call of run r ends with the outcome out: the _run_ method
\* returns, or the except clause of lines 152-154 takes the exception
TwoRan(r, out) ==
    \E o \in {out} :
        runs' = [runs EXCEPT ![r] =
                    [@ EXCEPT !.state = IF o.exc = NoExc THEN o.state
                                        ELSE AppendError(o.state, "Agent execution failed: " \o o.exc.msg),
                              !.pc = IF o.exc = NoExc THEN After(runs[r].pc) ELSE "returned",
                              !.call = Idle]]

\* run r enters timeout_handler(30) with the record st: lines 20-21 set the
\* handler and the alarm, replacing any alarm pending in the process, or
\* signal.signal raises and the call is never made
TwoArm(r, st, fetch) ==
    IF CanSetSignal(runs[r].thread)
    THEN /\ runs' = [runs EXCEPT ![r] = [@ EXCEPT !.state = st, !.call = InFlight(fetch)]]
         /\ alarm' = [armed |-> TRUE, by |-> r]
    ELSE /\ TwoRan(r, Process(runs[r].pc, st, api_key, LlmOutcome("no_signal", ""), fetch))
         /\ UNCHANGED alarm

\* run r starts the agent its pc names on the record st, up to chain.invoke
TwoEnter(r, st, fetch) ==
    IF ReachesInvoker(runs[r].pc, st) /\ api_key
    THEN TwoArm(r, st, fetch)
    ELSE /\ TwoRan(r, Process(runs[r].pc, st, api_key, NoAnswer, fetch))
         /\ UNCHANGED alarm

\* one "if not current_state.errors:" statement of run r
TwoStep(r) ==
    /\ runs[r].pc \in {AgentNames[i] : i \in 1..5}
    /\ ~runs[r].call.active /\ ~runs[r].call.fetching
    /\ actor' = r
    /\ UNCHANGED <<state, pc, api_key, ran, last, calls, response, late>>
    /\ IF ShouldRun(runs[r].pc, runs[r].state)
       THEN IF runs[r].pc = "market_outlook"
            THEN /\ runs' = [runs EXCEPT ![r] = [@ EXCEPT !.state.current_agent = runs[r].pc,
                                                         !.call = Fetching]]
                 /\ UNCHANGED alarm
            ELSE TwoEnter(r, [runs[r].state EXCEPT !.current_agent = runs[r].pc], NoFetch)
       ELSE /\ runs' = [runs EXCEPT ![r] = [@ EXCEPT !.pc = After(runs[r].pc)]]
            /\ UNCHANGED alarm

\* _fetch_market_data of run r returns what yfinance gave it, and the market
\* outlook agent goes on to its invoker
TwoFetched(r) ==
    /\ runs[r].call.fetching
    /\ actor' = r
    /\ UNCHANGED <<state, pc, api_key, ran, last, calls, response, late>>
    /\ \E fetch \in FetchOutcomes(runs[r].pc) : TwoEnter(r, runs[r].state, fetch)

\* chain.invoke of run r returns; line 26 cancels the alarm pending in the process
TwoReturn(r) ==
    /\ runs[r].call.active
    /\ actor' = r
    /\ alarm' = NoAlarm
    /\ UNCHANGED <<state, pc, api_key, ran, last, calls, response, late>>
    /\ \E content \in TwoAnswers(runs[r].pc) :
          TwoRan(r, Process(runs[r].pc, runs[r].state, api_key, LlmOutcome("content", content),
                            runs[r].call.fetch))

\* no call of the run was cut off by the alarm
NoLate == [agent |-> "none", arrived |-> FALSE]
\* chain.invoke of the agent called name was unwound by the TimeoutError of
\* line 17 before it returned: the request is out and nothing waits for its answer
CutOff(name) == [agent |-> name, arrived |-> FALSE]

\* the run whose thread is the main thread, where Python runs signal handlers
InMain == {r \in Runs : runs[r].thread = "main" /\ runs[r].call.active}

\* the alarm fires: timeout_signal_handler raises TimeoutError in the main
\* thread, and the finally clause of the call it interrupts cancels the alarm
TwoFire ==
    /\ alarm.armed
    /\ actor' = 0
    /\ alarm' = NoAlarm
    /\ UNCHANGED <<state, pc, api_key, ran, last, calls, response>>
    /\ IF InMain = {}
       THEN UNCHANGED <<runs, late>>
       ELSE \E r \in InMain :
               /\ TwoRan(r, Process(runs[r].pc, runs[r].state, api_key, LlmOutcome("timeout", ""),
                                    runs[r].call.fetch))
               /\ late' = [late EXCEPT ![r] = CutOff(runs[r].pc)]

\* lines 149-156 in run r
TwoFinish(r) ==
    /\ runs[r].pc = "finish"
    /\ actor' = r
    /\ runs' = [runs EXCEPT ![r] = [@ EXCEPT !.state.analysis_complete = TRUE, !.pc = "returned"]]
    /\ UNCHANGED <<state, pc, api_key, ran, last, calls, response, alarm, late>>

\* a call that hands its answer to the record whenever the answer comes, as a
\* callback of a call left running in the background would
TwoLateStored(r) ==
    /\ late[r].agent # "none" /\ ~late[r].arrived
    /\ actor' = 0
    /\ late' = [late EXCEPT ![r].arrived = TRUE]
    /\ UNCHANGED <<state, pc, api_key, ran, last, calls, response, alarm>>
    /\ \E content \in TwoAnswers(late[r].agent) :
          runs' = [runs EXCEPT ![r].state =
                      Process(late[r].agent, @, api_key, LlmOutcome("content", content), NoFetch).state]

\* the capability answers a call of run r that the alarm cut off. The call
\* was synchronous (line 77): the TimeoutError unwound chain.invoke and the
\* assignment to result, no thread or callback of the invoker is left to
\* take the answer, and the record is only reachable through the run
TwoLate(r) ==
    /\ late[r].agent # "none" /\ ~late[r].arrived
    /\ actor' = 0
    /\ late' = [late EXCEPT ![r].arrived = TRUE]
    /\ UNCHANGED <<state, pc, api_key, ran, last, calls, response, runs, alarm>>

TwoLates == \E r \in Runs : TwoLate(r)
TwoFetches == \E r \in Runs : TwoFetched(r)
TwoSteps == \E r \in Runs : TwoStep(r)
TwoReturns == \E r \in Runs : TwoReturn(r)
TwoFinishes == \E r \in Runs : TwoFinish(r)

\* two callers have reached lines 118-126, each in its own thread; at most
\* one of the threads is the main thread
InitTwo ==
    /\ \E thread \in [Runs -> Threads], pdf_content \in [Runs -> {"", "NSDL CAS statement"}] :
          /\ \A r, q \in Runs : thread[r] = "main" /\ thread[q] = "main" => r = q
          /\ runs = [r \in Runs |->
                        [thread |-> thread[r], state |-> FinancialState(pdf_content[r], <<>>),
                         pc |-> "cas_parser", call |-> Idle]]
    /\ alarm = NoAlarm
    /\ actor = 0
    /\ late = [r \in Runs |-> NoLate]
    /\ state = FinancialState(None, <<>>)
    /\ pc = "two"
    /\ api_key \in BOOLEAN
    /\ ran = <<>>
    /\ last = NoCall
    /\ calls = 0
    /\ response = NoResponse

NextTwo ==
    \/ TwoSteps
    \/ TwoFetches
    \/ TwoReturns
    \/ TwoFire
    \/ TwoFinishes
    \/ TwoLates

SpecTwo == InitTwo /\ [][NextTwo]_vars

\* SpecTwo with the progress the runtime guarantees: a thread that can
\* execute its next statement does, and a pending alarm is delivered (runs
\* are finite, so no thread can keep another from its turn for ever). Nothing
\* makes the capability answer (TwoReturn, TwoLate) or yfinance return
\* (TwoFetched)
SpecTwoFair == SpecTwo /\ WF_vars(TwoSteps \/ TwoFinishes \/ TwoFire)

(***************************************************************************)
(* Properties                                                              *)
(***************************************************************************)
IsPrefix(p, q) == Len(p) <= Len(q) /\ SubSeq(q, 1, Len(p)) = p
Count(x, list) == Cardinality({i \in 1..Len(list) : list[i] = x})
Returned == pc = "returned"
\* the last process call failed in its invoker or in interpreting the answer
LastFailed == last.path \in {"invoke_failed", "malformed"}
\* the last process call left an entry in errors
LastAppended == Len(state.errors) > last.errors_before

\* C1: in process_financial_planning_sync an agent is run only from a state
\* whose errors list is empty, so once an agent has left an error no later
\* agent of the fixed order is run.
C1_RunsOnlyWithoutErrors == [][ran' # ran => state.errors = <<>>]_vars
\* a run returned after its second agent left an error: three agents never ran
C1_Witness == Returned /\ state.errors # <<>> /\ ran = <<"cas_parser", "portfolio_analyzer">>

\* C2: in every state process_financial_planning_sync returns,
\* analysis_complete is true only if completed_agents has length 5.
C2_CompleteOnlyWithAllAgents == Returned => (state.analysis_complete => Len(state.completed_agents) = 5)

\* C3: if the CAS parser appends an error, the returned state has no agent
\* after the CAS parser in completed_agents and analysis_complete is false.
C3_ParserErrorStopsRun ==
    (Returned /\ last.agent = "cas_parser" /\ LastAppended) =>
        (state.completed_agents = <<"cas_parser">> /\ ~state.analysis_complete)

\* C4: if all five agents ran and errors is empty when the run returns, then
\* analysis_complete is true and final_report is not None.
C4_CleanRunHasReport ==
    (Returned /\ Len(ran) = 5 /\ state.errors = <<>>) =>
        (state.analysis_complete /\ state.final_report # JNull)
\* a run of all five agents returned without an error
C4_Witness == Returned /\ Len(ran) = 5 /\ state.errors = <<>> /\ last.agent = "financial_advisor"

\* C5: after any sequence of process calls on a record, an agent called twice
\* included, completed_agents has at most 5 entries and holds no name twice.
C5_CompletedDistinct ==
    /\ Len(state.completed_agents) <= 5
    /\ \A i, j \in 1..Len(state.completed_agents) :
          state.completed_agents[i] = state.completed_agents[j] => i = j
\* two process calls were made and both were of the same agent
C5_Witness == calls = 2 /\ Len(state.completed_agents) = 1

\* C6: when a process call returns, on whichever path (early return, success,
\* invoker failure, parse failure), the agent's own name is in
\* completed_agents exactly once.
C6_MarkedExactlyOnce ==
    (last.agent # "none" /\ last.exc = NoExc) => Count(last.agent, state.completed_agents) = 1
\* the CAS parser returned early on an empty input, in a second call on the record
C6_Witness == last.agent = "cas_parser" /\ last.path = "no_input" /\ calls = 2

\* C7: during a run completed_agents is always a prefix of the fixed order
\* cas_parser, portfolio_analyzer, market_outlook, risk_profiler,
\* financial_advisor, and so is the sequence of agents run: none is skipped
\* while a later one runs and each is run at most once.
C7_CompletedIsPrefix == IsPrefix(state.completed_agents, AgentNames) /\ IsPrefix(ran, AgentNames)
\* the run is past its third agent and about to consider the fourth
C7_Witness == pc = "risk_profiler" /\ Len(state.completed_agents) = 3

\* C8: every step of a run leaves the previous errors list as a prefix of the
\* new one: no agent and no step of the orchestrator removes an entry.
C8_ErrorsOnlyGrow == [][IsPrefix(state.errors, state'.errors)]_vars
\* a run returned, past the steps that follow the error its third agent left
C8_Witness == Returned /\ Len(state.errors) = 1 /\ Len(ran) = 3

\* C9: whenever an agent fails or substitutes a fallback value, also when
\* the answer does not parse as JSON in the portfolio analyzer, the market
\* outlook, the risk profiler or the financial advisor, it appends an entry to
\* errors.
C9_DegradedAppendsError == (LastFailed \/ last.path = "parse_fallback") => LastAppended

\* C10: for every outcome of the invoker and of the interpretation of the
\* answer, each agent's process returns: no exception escapes it.
C10_NoExceptionEscapes == last.exc = NoExc
\* the market outlook agent returned after MarketData rejected the fetched indices
C10_Witness == last.agent = "market_outlook" /\ last.path = "malformed" /\ last.exc = NoExc /\ LastAppended

\* the capability did not answer the last process call before the alarm fired
TimedOut == last.llm.kind = "timeout" /\ last.called
\* the newest entry of errors
LastError == state.errors[Len(state.errors)]
\* the part of the state the agent called name produces
SubRecord(name, st) ==
    CASE name = "cas_parser" -> st.portfolio
      [] name = "portfolio_analyzer" -> st.portfolio.analysis
      [] name = "market_outlook" -> st.market_data
      [] name = "risk_profiler" -> st.risk_profile
      [] OTHER -> st.recommendations

\* C11: when the capability does not answer an agent within the 30 seconds,
\* the agent appends an error that tells of the timeout, is in
\* completed_agents exactly once, holds a fallback value in its part of the
\* state, and returns without raising.
C11_TimeoutSubstitutes ==
    TimedOut =>
        /\ LastAppended /\ InLower("timed out", LastError)
        /\ Count(last.agent, state.completed_agents) = 1
        /\ SubRecord(last.agent, state) # JNull
        /\ last.exc = NoExc

\* the substrings that excuse an error at the boundary, matched in error.lower()
Markers ==
    {"timeout", "api key", "fallback", "mock data", "no portfolio holdings",
     "no holdings available", "no field", "analysis", "parse", "json"}
HasMarker(error) == \E m \in Markers : InLower(m, error)
IsAdvisory(error) == HasMarker(error)
IsFatalError(error) == ~HasMarker(error)
\* upload_cas_file has handed back its answer, after a run or without one
Responded == pc = "responded"
AfterRun == Responded /\ ran # <<>>
Succeeded == Responded /\ response.kind = "json" /\ response.content.status = "success"

\* C13: at the boundary an error is advisory exactly when it contains a
\* marker and fatal otherwise; the answer is a failure that carries exactly
\* the fatal messages when some error is fatal, and a success when none is.
C13_VerdictByFatal ==
    AfterRun =>
        /\ response.kind = "json"
        /\ IF SelectSeq(state.errors, IsFatalError) # <<>>
           THEN /\ response.content.status = "error"
                /\ response.content.errors = SelectSeq(state.errors, IsFatalError)
           ELSE response.content.status = "success"
\* a run ended with a fatal error and the answer is a failure
C13_Witness == AfterRun /\ response.kind = "json" /\ response.content.status = "error"

\* C14: in a success answer every advisory error of the run is in the
\* warnings list: the fatal errors and the warnings partition errors.
C14_WarningsAreAdvisory ==
    Succeeded => response.content.warnings = SelectSeq(state.errors, IsAdvisory)

\* C15: the error an agent appends because its capability call timed out is
\* advisory for the boundary's classifier, for every agent.
C15_TimeoutIsAdvisory == TimedOut => (LastAppended /\ IsAdvisory(LastError))

\* C16: whenever the boundary answers success, all five agents are in
\* completed_agents and final_report is not None.
C16_SuccessHasFullReport ==
    Succeeded => (Len(state.completed_agents) = 5 /\ state.final_report # JNull)

\* C17: for every file and every failure of text extraction or of an agent,
\* upload_cas_file returns an answer with status success or error and lets
\* no exception escape.
C17_AlwaysStructured ==
    Responded => (response.kind = "json" /\ response.content.status \in {"success", "error"})

\* C18: a run on an empty input text returns completed_agents equal to the
\* CAS parser alone and analysis_complete false, its one error contains no
\* marker, and the boundary's answer is a failure.
C18_EmptyInputIsFatal ==
    (Responded /\ state.pdf_content = "") =>
        /\ state.completed_agents = <<"cas_parser">>
        /\ ~state.analysis_complete
        /\ Len(state.errors) = 1 /\ IsFatalError(state.errors[1])
        /\ response.kind = "json" /\ response.content.status = "error"

\* the last process call got as far as self._invoke_llm
ReachedInvoker == last.path \notin {"none", "no_input", "no_holdings"}
\* the external call of the last process call failed: no key, no answer in
\* time, a transport error, or a blank answer
ExternalFailed ==
    /\ ReachedInvoker
    /\ \/ ~api_key
       \/ last.llm.kind \in {"timeout", "error"}
       \/ last.llm.kind = "content" /\ (last.llm.content = "" \/ StrippedAnswer[last.llm.content] = "")

C20_NoKeyNoCall ==
    (ReachedInvoker /\ ~api_key) =>
        /\ ~last.called
        /\ last.path = "invoke_failed"
        /\ InLower("google api key not configured", LastError)
\* the financial advisor was called without a key
C20_Witness == ReachedInvoker /\ ~api_key /\ last.agent = "financial_advisor"

\* C12: two runs that execute concurrently share no mutable state: no step
\* of one run changes the other run's record (only the run's own alarm ends
\* its call from outside), and no step of one run changes or cancels the
\* alarm that bounds the other run's call in flight.
C12_RunsIsolated ==
    [][\A r \in Runs :
          /\ (actor' # r /\ runs'[r] # runs[r]) => (actor' = 0 /\ alarm.by = r)
          /\ (Bounded(r) /\ actor' \notin {0, r}) => alarm' = alarm]_vars
\* one run is in chain.invoke under its alarm, and the other run has just
\* taken a step in which its own call failed
C12_Witness ==
    \E r, q \in Runs :
        /\ r # q /\ actor = q
        /\ Bounded(r)
        /\ runs[q].state.errors # <<>> /\ runs[q].state.pdf_content # ""

\* the capability answered the last process call in time with a text whose
\* cleaned form is blank
BlankAfterCleaning ==
    /\ ReachedInvoker /\ last.called
    /\ last.llm.kind = "content"
    /\ (last.llm.content = "" \/ CleanedAnswer[last.llm.content] = "")

\* C21: whenever the capability answers in time with a text that is blank
\* once the code fences and the surrounding whitespace are removed, the
\* invoker fails with the empty-response error; it never returns a blank string.
C21_BlankAnswerFails ==
    BlankAfterCleaning =>
        /\ last.path = "invoke_failed"
        /\ LastAppended /\ InLower("llm returned empty response", LastError)

\* what a run's record holds apart from the flag of line 149
Kept(st) == [st EXCEPT !.analysis_complete = FALSE]

\* C22: once the alarm has cut off a call of a run, no step changes what the
\* run's record holds (only the flag of line 149 is still set): the answer to
\* the abandoned call, when it comes, is discarded and nothing derived from
\* it is written.
C22_LateAnswerDiscarded ==
    [][\A r \in Runs : late[r].agent # "none" => Kept(runs'[r].state) = Kept(runs[r].state)]_vars
\* the answer to an abandoned call of the portfolio analyzer has come after
\* the run returned
C22_Witness ==
    \E r \in Runs :
        /\ late[r].agent = "portfolio_analyzer" /\ late[r].arrived
        /\ runs[r].pc = "returned" /\ runs[r].state.portfolio.analysis = JNull

\* C23: every run of process_financial_planning_sync eventually returns its
\* record, whatever the capability and the market-data collaborator do, a
\* call that is never answered included.
C23_EveryRunReturns == <>(\A r \in Runs : runs[r].pc = "returned")

\* the last process call was of the CAS parser on a record without input text
ParsedNothing == last.agent = "cas_parser" /\ (state.pdf_content = None \/ state.pdf_content = "")

\* C25: on a record whose pdf_content is None or empty the CAS parser appends
\* exactly one error, is in completed_agents, and returns without calling
\* the invoker.
C25_EmptyInputOneError ==
    ParsedNothing =>
        /\ Len(state.errors) = last.errors_before + 1
        /\ LastError = "No PDF content provided for parsing"
        /\ InSeq("cas_parser", state.completed_agents)
        /\ ~last.called /\ last.exc = NoExc
\* the CAS parser was called on a record whose pdf_content is None, after
\* another agent had been called on it
C25_Witness == ParsedNothing /\ state.pdf_content = None /\ calls = 2 /\ Len(state.completed_agents) = 2

\* the last process call was of the portfolio analyzer on a portfolio without holdings
AnalyzedNothing == last.agent = "portfolio_analyzer" /\ state.portfolio.holdings = <<>>

\* C26: on a portfolio without holdings the portfolio analyzer calls nothing
\* external, stores the fixed default analysis (score 5 and the note that no
\* holdings data is available), appends no error, and the run goes on to the
\* market outlook agent.
C26_NoHoldingsDefault ==
    AnalyzedNothing =>
        /\ ~last.called /\ last.exc = NoExc
        /\ state.portfolio.analysis =
              JDict([diversification_score |-> JNum(5),
                     concentration_risks |-> JList(<<JStr("No holdings data available")>>),
                     key_insights |-> JList(<<JStr("Upload a valid CAS file for detailed analysis")>>)])
        /\ Len(state.errors) = last.errors_before
        /\ pc = "market_outlook" /\ ShouldRun("market_outlook", state)
\* the CAS parser found no holdings in a text, and the portfolio analyzer has run
C26_Witness ==
    AnalyzedNothing /\ state.pdf_content = "NSDL CAS statement" /\ ran = <<"cas_parser", "portfolio_analyzer">>

\* C27: after the risk profiler returns, risk_profile.score lies between 0
\* and 10, whatever number the answer carried as risk_score (negative
\* numbers and numbers above 10 included).
C27_ScoreInRange ==
    (last.agent = "risk_profiler" /\ last.exc = NoExc) =>
        (0 <= state.risk_profile.score /\ state.risk_profile.score <= 10)

\* the financial advisor returned from a call whose invoker failed or whose
\* answer json.loads could not parse
AdviceFailed ==
    /\ last.agent = "financial_advisor" /\ last.exc = NoExc
    /\ \/ ExternalFailed
       \/ /\ last.called /\ last.llm.kind = "content" /\ last.llm.content # ""
          /\ JsonLoads(CleanedAnswer[last.llm.content]).exc # NoExc
\* the five lists of a Recommendations record, in the order of RecommendationKeys
FiveLists(r) == [i \in 1..5 |-> r[RecommendationKeys[i]]]
\* the two sets of lists the source writes out as literals: those of
\* _get_fallback_recommendations and those of the invalid-JSON advice
SubstituteLists ==
    {FiveLists(FallbackRecommendations),
     [i \in 1..5 |-> StrList(InvalidJsonAdvice.v[RecommendationKeys[i]])]}

\* C28: when the financial advisor returns after its invoker call failed or
\* its answer failed to parse, recommendations holds one of the fixed
\* substitute sets, and each of its five lists is non-empty.
C28_SubstituteNeverEmpty ==
    AdviceFailed =>
        /\ FiveLists(state.recommendations) \in SubstituteLists
        /\ \A i \in 1..5 : FiveLists(state.recommendations)[i] # <<>>
\* the capability did not answer the financial advisor in time
C28_Witness == AdviceFailed /\ last.llm.kind = "timeout" /\ Len(ran) = 5

\* C29: in every record of a run, final_report is not None only after the
\* financial advisor has returned without raising, with all five agents in
\* completed_agents and errors empty: no other agent and no failing path of
\* the financial advisor writes it.
C29_ReportOnlyOnSuccess ==
    state.final_report # JNull =>
        /\ last.agent = "financial_advisor" /\ last.exc = NoExc
        /\ \A i \in 1..5 : InSeq(AgentNames[i], state.completed_agents)
        /\ state.errors = <<>>
\* a run has returned a record that holds a final report
C29_Witness == Returned /\ state.final_report # JNull /\ state.analysis_complete

\* the answer, cleaned and parsed, is an object with a market_sentiment
\* string and a sector_outlook that maps names to strings
WellFormedOutlook(content) ==
    LET parsed == JsonLoads(CleanedAnswer[content])
    IN  /\ parsed.exc = NoExc /\ parsed.value.t = "dict"
        /\ "market_sentiment" \in DOMAIN parsed.value.v /\ parsed.value.v["market_sentiment"].t = "str"
        /\ "sector_outlook" \in DOMAIN parsed.value.v /\ IsStrDict(parsed.value.v["sector_outlook"])
\* the market outlook agent returned from a call in which yfinance gave at
\* least one index and the capability a well-formed answer
OutlookWithIndices ==
    /\ last.agent = "market_outlook" /\ last.exc = NoExc
    /\ ~last.fetch.failed /\ last.fetch.fetched # {}
    /\ last.called /\ last.llm.kind = "content" /\ last.llm.content # ""
    /\ WellFormedOutlook(last.llm.content)

\* C30: when the market-data collaborator gives at least one index (name
\* mapped to price and percent change) and the capability a well-formed
\* answer, the market outlook agent stores the answer's sentiment and sector
\* outlook and the fetched indices in market_data and appends no error.
C30_OutlookStored ==
    OutlookWithIndices =>
        LET answer == JsonLoads(CleanedAnswer[last.llm.content]).value.v
        IN  /\ state.market_data.market_sentiment = answer["market_sentiment"].v
            /\ state.market_data.sector_outlook = StrDict(answer["sector_outlook"])
            /\ state.market_data.market_indices = [n \in last.fetch.fetched |-> Quote]
            /\ ~LastAppended

\* the market outlook agent was run, with a key, in a run whose market-data
\* fetch failed as a whole
FetchFailed == last.agent = "market_outlook" /\ last.fetch.failed /\ api_key

Allocated == pc = "allocated"
\* the sum of current_value over the holdings that satisfy no test but their
\* asset type (any type when k is None) and, when sec is not None, their sector
RECURSIVE ValueOf(_, _, _)
ValueOf(holdings, k, sec) ==
    IF holdings = <<>> THEN 0
    ELSE (IF (k = None \/ Head(holdings).asset_type = k) /\ (sec = None \/ Head(holdings).sector = sec)
          THEN Head(holdings).current_value ELSE 0) + ValueOf(Tail(holdings), k, sec)
\* the sum of the percentages of an allocation over the keys in keys, as a fraction
RECURSIVE PercentSum(_, _)
PercentSum(allocation, keys) ==
    IF keys = {} THEN [num |-> 0, den |-> 1]
    ELSE LET k == CHOOSE x \in keys : TRUE
             rest == PercentSum(allocation, keys \ {k})
         IN [num |-> allocation[k].num * rest.den + rest.num * allocation[k].den,
             den |-> allocation[k].den * rest.den]
\* the percentage p equals n / d * 100
IsPercentOf(p, n, d) == p.den # 0 /\ d # 0 /\ p.num * d = 100 * n * p.den
\* the percentages of the allocation sum to 100
SumsTo100(allocation) ==
    PercentSum(allocation, DOMAIN allocation).den # 0 /\
    PercentSum(allocation, DOMAIN allocation).num = 100 * PercentSum(allocation, DOMAIN allocation).den

\* C32: for every non-empty list of holdings whose values sum to a positive
\* total, asset_allocation has exactly the asset types present as keys, each
\* mapped to 100 times the sum of current_value of that type divided by the
\* total, and the percentages sum to 100.
C32_AssetAllocation ==
    (Allocated /\ state.portfolio.holdings # <<>> /\ ValueOf(state.portfolio.holdings, None, None) > 0) =>
        LET holdings == state.portfolio.holdings
            allocation == state.portfolio.asset_allocation
        IN  /\ DOMAIN allocation = {holdings[i].asset_type : i \in 1..Len(holdings)}
            /\ \A k \in DOMAIN allocation :
                  IsPercentOf(allocation[k], ValueOf(holdings, k, None), ValueOf(holdings, None, None))
            /\ SumsTo100(allocation)
\* holdings of 600 in equity and 400 in debt give equity 60 and debt 40
C32_Witness ==
    /\ Allocated /\ Len(state.portfolio.holdings) = 2
    /\ ValueOf(state.portfolio.holdings, "equity", None) = 600
    /\ ValueOf(state.portfolio.holdings, "debt", None) = 400
    /\ DOMAIN state.portfolio.asset_allocation = {"equity", "debt"}
    /\ IsPercentOf(state.portfolio.asset_allocation["equity"], 60, 100)
    /\ IsPercentOf(state.portfolio.asset_allocation["debt"], 40, 100)

\* the CAS parser returned after it stored the holdings of an answer
Extracted == last.agent = "cas_parser" /\ last.called /\ last.exc = NoExc /\ ~LastAppended

\* C33: after the CAS parser has stored the holdings of an answer,
\* portfolio.total_value equals the sum of current_value over the stored
\* holdings, whatever total_value the answer reported.
C33_TotalIsSum ==
    Extracted => state.portfolio.total_value = ValueOf(state.portfolio.holdings, None, None)

\* no holding of the list has asset type equity
NoEquity(holdings) == \A i \in 1..Len(holdings) : holdings[i].asset_type # "equity"

\* C34: for every list of holdings without a holding of asset type equity,
\* sector_allocation is the empty mapping whatever sectors the holdings name,
\* and no percentage is computed with a zero divisor.
C34_NoEquityNoSectors ==
    (Allocated /\ NoEquity(state.portfolio.holdings)) =>
        /\ state.portfolio.sector_allocation = <<>>
        /\ \A k \in DOMAIN state.portfolio.asset_allocation : state.portfolio.asset_allocation[k].den # 0
\* two debt holdings that name a sector, with values that do not cancel
C34_Witness ==
    /\ Allocated /\ NoEquity(state.portfolio.holdings) /\ Len(state.portfolio.holdings) = 2
    /\ \A i \in 1..2 : state.portfolio.holdings[i].sector = "Govt"
    /\ ValueOf(state.portfolio.holdings, None, None) = 1000

\* C35: whenever sector_allocation is not empty its percentages sum to 100,
\* also when some equity holding names no sector.
C35_SectorsSumTo100 ==
    (Allocated /\ state.portfolio.sector_allocation # <<>>) => SumsTo100(state.portfolio.sector_allocation)

\* C36: the step in which get_workflow_status is called (the success answer
\* of upload_cas_file) changes no field of the record, and the status it
\* reports holds the progress len(completed_agents) / 5 * 100, between 0 and
\* 100, and the record's completed_agents, errors and analysis_complete.
C36_StatusReadsOnly ==
    [][(pc = "returned" /\ pc' = "responded" /\ response'.kind = "json"
            /\ response'.content.status = "success") =>
          LET status == response'.content.data.workflow_status
          IN  /\ state' = state
              /\ IsPercentOf(status.progress_percentage, Len(state.completed_agents), 5)
              /\ 0 <= status.progress_percentage.num
              /\ status.progress_percentage.num <= 100 * status.progress_percentage.den
              /\ status.completed_agents = state.completed_agents
              /\ status.errors = state.errors
              /\ status.analysis_complete = state.analysis_complete]_vars
\* the status of a run that was cut short after three agents has been reported
C36_Witness ==
    /\ Succeeded /\ Len(state.completed_agents) = 3 /\ state.errors # <<>>
    /\ IsPercentOf(response.content.data.workflow_status.progress_percentage, 60, 100)

\* what the CAS parser produces: the holdings, their total and the allocations
Extraction(st) ==
    <<st.portfolio.holdings, st.portfolio.total_value, st.portfolio.asset_allocation,
      st.portfolio.sector_allocation>>

\* C37: in every step of a run each part of the record changes only when its
\* own agent runs: market_data in the market outlook agent, risk_profile in
\* the risk profiler, recommendations and final_report in the financial
\* advisor, the holdings with their total and allocations in the CAS parser,
\* portfolio.analysis in the portfolio analyzer; and no step changes
\* pdf_content or user_responses.
C37_OwnPartOnly ==
    [][LET writer == IF ran' # ran THEN last'.agent ELSE "none"
       IN  /\ writer # "market_outlook" => state'.market_data = state.market_data
           /\ writer # "risk_profiler" => state'.risk_profile = state.risk_profile
           /\ writer # "financial_advisor" =>
                 (state'.recommendations = state.recommendations /\ state'.final_report = state.final_report)
           /\ writer # "cas_parser" => Extraction(state') = Extraction(state)
           /\ writer # "portfolio_analyzer" => state'.portfolio.analysis = state.portfolio.analysis
           /\ state'.pdf_content = state.pdf_content
           /\ state'.user_responses = state.user_responses]_vars
\* all five agents have run and each has stored its part
C37_Witness ==
    /\ Len(ran) = 5 /\ state.final_report # JNull /\ state.portfolio.analysis # JNull
    /\ state.portfolio.holdings # <<>> /\ state.risk_profile.assessment # JNull
    /\ state.market_data.analysis # JNull

\* the agent marked last in st
LastMarked(st) == st.completed_agents[Len(st.completed_agents)]

\* C38: the state a run returns holds at most one error, and when it holds
\* one, the error was appended during the call of the agent that is last in
\* completed_agents.
C38_OneErrorByLastAgent ==
    Returned =>
        /\ Len(state.errors) <= 1
        /\ state.errors # <<>> =>
              /\ state.completed_agents # <<>>
              /\ last.agent = LastMarked(state)
              /\ last.errors_before = 0
\* a run returned with the error of its third agent
C38_Witness ==
    /\ Returned /\ Len(state.errors) = 1 /\ Len(state.completed_agents) = 3
    /\ LastMarked(state) = "market_outlook" /\ last.agent = "market_outlook"

\* C39: whenever a call of the CAS parser appends an error, whether the
\* capability failed, its answer could not be read or one of its holdings
\* could not be converted, the portfolio is left exactly as it was before the
\* call: no part of the answer's holdings is stored.
C39_AllOrNothing ==
    [][(last'.agent = "cas_parser" /\ Len(state'.errors) > Len(state.errors))
          => state'.portfolio = state.portfolio]_vars
\* a call of the CAS parser stored holdings, and a later call whose answer
\* held a holding that cannot be converted appended an error and kept them
C39_Witness ==
    /\ last.agent = "cas_parser" /\ LastAppended /\ last.path = "malformed"
    /\ last.llm = LlmOutcome("content", TxtCasBadItem)
    /\ Len(state.portfolio.holdings) = 2

(***************************************************************************)
(* The compiled graph of _build_workflow, run from its entry point along   *)
(* its edges                                                               *)
(***************************************************************************)
\* lines 88-99: the router of the conditional edge
ShouldContinueAnalysis(st) ==
    IF st.portfolio.holdings = <<>> /\ st.errors = <<>> THEN "continue"
    ELSE IF st.errors # <<>> THEN "error"
    ELSE "continue"

\* lines 40-54: the node that follows the node called name when it returned
\* st; "end" is END
GraphAfter(name, st) ==
    CASE name = "cas_parser" -> "portfolio_analyzer"
      [] name = "portfolio_analyzer" ->
            IF ShouldContinueAnalysis(st) = "continue" THEN "market_outlook" ELSE "end"
      [] name = "market_outlook" -> "risk_profiler"
      [] name = "risk_profiler" -> "financial_advisor"
      [] OTHER -> "end"

\* a node returned: the graph follows the node's edge; an exception leaves
\* the graph
GraphRan(name, llm, fetch, out) ==
    /\ ran' = Append(ran, name)
    /\ last' = Call(name, state, out, llm, fetch)
    /\ state' = out.state
    /\ pc' = IF out.exc = NoExc THEN GraphAfter(name, out.state) ELSE "raised"
    /\ UNCHANGED <<api_key, calls, response, two>>

\* the node called name, one of the _run_ methods of lines 58-86
GraphNode(name) ==
    /\ pc = name
    /\ \E llm \in LlmOutcomes(name), fetch \in FetchOutcomes(name) :
          GraphRan(name, llm, fetch, Process(name, [state EXCEPT !.current_agent = name], api_key, llm, fetch))

GraphCasParser == GraphNode("cas_parser")
GraphPortfolioAnalyzer == GraphNode("portfolio_analyzer")
GraphMarketOutlook == GraphNode("market_outlook")
GraphRiskProfiler == GraphNode("risk_profiler")
GraphFinancialAdvisor == GraphNode("financial_advisor")

NextGraph ==
    \/ GraphCasParser
    \/ GraphPortfolioAnalyzer
    \/ GraphMarketOutlook
    \/ GraphRiskProfiler
    \/ GraphFinancialAdvisor

SpecGraph == Init /\ [][NextGraph]_vars

\* C40: the graph runs an agent exactly when the sequence of
\* process_financial_planning_sync would run it on the same state, so that
\* both run the same agents whatever the agents do: every node the graph
\* enters is one the sequence's test lets run, in particular the portfolio
\* analyzer is not entered once the CAS parser has left an error, and the
\* graph ends only after the financial advisor or with an error.
C40_GraphRunsWhatSequenceRuns ==
    [][/\ ran' # ran => ShouldRun(last'.agent, state)
       /\ (pc' = "end" /\ pc # "end") =>
             (last'.agent = "financial_advisor" \/ state'.errors # <<>>)]_vars
====
